---- MODULE Spec2Model ----
(***************************************************************************)
(* Model of the two deterministic engines of the call-audit service:       *)
(*   - granular score compilation  (src/api/scoring_v2.py:                 *)
(*     check_fatal_parameters, compile_final_report)                       *)
(*   - same-speaker segment merge  (src/api/transcription.py:              *)
(*     sanitize_text, merge_consecutive_speaker_segments)                  *)
(* Python dicts are modelled as functions whose DOMAIN is the set of keys  *)
(* present, so dict.get(key, default) keeps its default branch.            *)
(***************************************************************************)
EXTENDS Integers, Sequences, FiniteSets, TLC

VARIABLES
    rubric,           \* the rubric handed to compile_final_report
    scoring_results,  \* the oracle payload: criterion id -> entry
    report,           \* the dict compile_final_report returns
    phase,            \* "scored" (payload received) | "compiled"
    segments,         \* input of merge_consecutive_speaker_segments
    merged,           \* its output
    remerged,         \* the output of applying it to its own output
    mphase,           \* "input" | "merged" | "remerged"
    tokens,           \* the provider's token list, in provider order
    merge_threshold,  \* transcribe_audio's merge_threshold
    normalize_speakers, \* transcribe_audio's normalize_speakers
    tpos,             \* number of tokens the aggregation loop has consumed
    current_seg,      \* the loop's open segment (NoSeg when None)
    tok_segments,     \* the loop's list of closed segments
    loc,              \* the loop body's locals after the last iteration
    tresult,          \* the dict transcribe_audio returns
    tphase,           \* "tokens" | "aggregated" | "done"
    label_input,      \* input of normalize_speaker_labels
    normalized,       \* its output
    lphase,           \* "input" | "normalized"
    penv,             \* the run's environment: API key set, audio file present
    pstep,            \* where the provider run stands
    job_status,       \* the status of the job at the provider ("none" before it exists)
    observed,         \* the status the last poll read ("" before the first poll)
    polls,            \* number of polls made, counted up to MaxPolls
    sleep_s,          \* seconds slept by the last step
    last_request,     \* the last request sent to the provider
    transcript_json,  \* the provider's transcript response
    presult,          \* the dict the run returns
    perror,           \* the error the run raises
    v1_rubric,        \* the rubric of the discrete (V1) scorer
    v1_raw,           \* the oracle payload of a discrete run (raw), parsed
    scoring_data,     \* what score_with_openai returns
    v1_report,        \* the dict score_transcript returns
    v1phase,          \* "answered" (payload received) | "resolved" | "scored"
    fault,            \* the ill-typed entry of the payload, kept apart from scoring_results
    transcript_data,  \* the JSON body of a score request
    score_response,   \* what the score endpoint answers: status and scorer called
    ephase,           \* "received" | "answered"
    audio_requests,   \* request -> the uploaded file: filename and content
    apc,              \* request -> "received" | "reading" | "answered"
    tmp_audio,        \* the directory .tmp_audio: file name -> inode
    inodes,           \* inode -> the bytes it holds
    fds,              \* request -> the inode its open file object writes to
    audio_responses   \* request -> status, detail and the bytes sent to the provider

scoringVars == <<rubric, scoring_results, report, phase>>
mergeVars == <<segments, merged, remerged, mphase>>
transVars == <<tokens, merge_threshold, normalize_speakers, tpos, current_seg,
               tok_segments, loc, tresult, tphase>>
labelVars == <<label_input, normalized, lphase>>
providerVars == <<penv, pstep, job_status, observed, polls, sleep_s, last_request, transcript_json, presult, perror>>

discreteVars == <<v1_rubric, v1_raw, scoring_data, v1_report, v1phase>>

shapeVars == <<fault>>

endpointVars == <<transcript_data, score_response, ephase>>

audioVars == <<audio_requests, apc, tmp_audio, inodes, fds, audio_responses>>

vars == <<rubric, scoring_results, report, phase,
          segments, merged, remerged, mphase,
          tokens, merge_threshold, normalize_speakers, tpos, current_seg,
          tok_segments, loc, tresult, tphase,
          label_input, normalized, lphase,
          penv, pstep, job_status, observed, polls, sleep_s, last_request, transcript_json, presult, perror,
          v1_rubric, v1_raw, scoring_data, v1_report, v1phase,
          fault,
          transcript_data, score_response, ephase,
          audio_requests, apc, tmp_audio, inodes, fds, audio_responses>>

----------------------------------------------------------------------------
(* Generic helpers                                                         *)

\* dict.get(k, default)
Get(d, k, default) == IF k \in DOMAIN d THEN d[k] ELSE default

\* a dict with no key
EmptyDict == [k \in {} |-> 0]

RECURSIVE SumSeq(_)
SumSeq(s) == IF s = <<>> THEN 0 ELSE Head(s) + SumSeq(Tail(s))

RECURSIVE Flatten(_)
Flatten(ss) == IF ss = <<>> THEN <<>> ELSE Head(ss) \o Flatten(Tail(ss))

\* round(num / den * 100, 2) in hundredths of a percent, for num >= 0 and
\* den > 0; Python's round() rounds an exact tie to the even neighbour.
RoundPercent(num, den) ==
    LET n == num * 10000
        q == n \div den
        r == n % den
    IN  IF 2 * r < den THEN q
        ELSE IF 2 * r > den THEN q + 1
        ELSE IF q % 2 = 0 THEN q ELSE q + 1

----------------------------------------------------------------------------
(* Bounds of the model                                                     *)

\* largest max_points a rubric criterion declares; raw scores range over
\* -2 .. MaxPoints + 1, so that both clamps and the NA sentinel occur
MaxPoints == 2

\* number of payload entries that may differ from the all-pass payload
MaxDeviations == 2

----------------------------------------------------------------------------
(* Granular scoring: constants of the code                                 *)

\* fatal_param_mapping of check_fatal_parameters, in insertion order
FatalOrder ==
    <<"brand_intro", "project_knowledge_accuracy", "professional",
      "tone_voice_modulation">>

FatalDescription ==
    [brand_intro |-> "No introduction of brand",
     project_knowledge_accuracy |-> "Wrong Information / False Commitment",
     professional |-> "No Professional Behaviour",
     tone_voice_modulation |-> "Avoid being Rude and Unprofessional"]

\* fatal_param_ids of compile_final_report
fatal_param_ids ==
    {"brand_intro", "project_knowledge_accuracy", "professional",
     "tone_voice_modulation"}

\* rubric.get('total_points', 100)
DefaultTotalPoints == 100

\* the NA sentinel
NAScore == -1

----------------------------------------------------------------------------
(* Granular scoring: inputs                                                *)

NonFatalIds == {"greeting_intro", "objection_handling"}

\* a key the oracle may return that no rubric declares
UnlistedId == "unlisted_param"

PayloadKeys == fatal_param_ids \cup NonFatalIds \cup {UnlistedId}

RawScores == (-2) .. (MaxPoints + 1)

\* entries in which the oracle echoes a max_points of its own: one above
\* every rubric value with a score as large, and 0 with a score above it
EchoEntries ==
    { [score |-> MaxPoints + 1, max_points |-> MaxPoints + 1],
      [score |-> 1, max_points |-> 0] }

\* one per-criterion entry of the payload: a dict with or without 'score'
Entries == {EmptyDict} \cup {[score |-> s] : s \in RawScores}

\* the payload in which every key is answered with score 1
AllPass == [k \in PayloadKeys |-> [score |-> 1]]

\* payloads that differ from AllPass on the keys D: each key of D is either
\* absent or carries any entry
PayloadsOn(D) ==
    UNION { { [k \in (PayloadKeys \ D) \cup P |->
                 IF k \in P THEN f[k] ELSE AllPass[k]] :
              f \in [P -> Entries] } : P \in SUBSET D }

PlainPayloads ==
    UNION { PayloadsOn(D) :
            D \in {X \in SUBSET PayloadKeys : Cardinality(X) <= MaxDeviations} }

\* payloads with at most one deviation in which one further entry carries
\* an echoed max_points
EchoPayloads ==
    { [k \in DOMAIN p |-> IF k = e THEN echo ELSE p[k]] :
        p \in UNION { PayloadsOn(D) :
                      D \in {X \in SUBSET PayloadKeys : Cardinality(X) <= 1} },
        e \in PayloadKeys, echo \in EchoEntries }

Payloads == PlainPayloads \cup EchoPayloads

\* rubric shapes: categories in order, criterion ids within a category in order
RubricShapes ==
    { <<>>,
      << <<"brand_intro", "greeting_intro">>,
         <<"objection_handling", "professional">> >>,
      << <<"objection_handling">>, <<>>, <<"greeting_intro">> >>,
      << <<"objection_handling", "brand_intro">> >>,
      << <<"tone_voice_modulation", "project_knowledge_accuracy">>,
         <<"professional", "brand_intro", "greeting_intro">> >> }

\* weight tables: every criterion worth m points, or graded by position
WeightTables ==
    { [i \in 1 .. 5 |-> m] : m \in 0 .. MaxPoints }
    \cup { [i \in 1 .. 5 |-> i % (MaxPoints + 1)] }

CategoryIds == <<"opening", "discovery", "closing">>

MkCategory(c, ids, w) ==
    [id |-> CategoryIds[c],
     max_points |-> SumSeq([i \in 1 .. Len(ids) |-> w[i]]),
     sub_parameters |-> [i \in 1 .. Len(ids) |-> [id |-> ids[i], max_points |-> w[i]]]]

MkCategories(shape, w) == [c \in 1 .. Len(shape) |-> MkCategory(c, shape[c], w)]

\* a rubric that declares total_points as the sum of its criteria's
\* max_points, or leaves total_points undeclared
MkRubric(shape, w, declared) ==
    LET cats == MkCategories(shape, w)
        total == SumSeq([c \in 1 .. Len(cats) |-> cats[c].max_points])
    IN  IF declared
        THEN [total_points |-> total, categories |-> cats]
        ELSE [categories |-> cats]

Rubrics ==
    { MkRubric(s, w, d) : s \in RubricShapes, w \in WeightTables, d \in BOOLEAN }

----------------------------------------------------------------------------
(* Granular scoring: check_fatal_parameters                                *)

\* a lookup that takes a missing entry or a missing score for NA
RawScoreAbsentNA(results, param_id) ==
    Get(Get(results, param_id, EmptyDict), "score", NAScore)

\* result = scoring_results.get(param_id, {}); result.get('score', 0)
RawScore(results, param_id) == Get(Get(results, param_id, EmptyDict), "score", 0)

\* the loop body's test: NA is skipped, a score of exactly 0 fails
FatalFails(results, param_id) ==
    /\ RawScore(results, param_id) # NAScore
    /\ RawScore(results, param_id) = 0

\* (is_fatal_failed, failed_fatal_params); the rubric argument is unused
check_fatal_parameters(results, rub) ==
    LET failed == SelectSeq(FatalOrder, LAMBDA p : FatalFails(results, p))
    IN  [is_fatal |-> Len(failed) > 0,
         failed_fatal_params |->
           [i \in 1 .. Len(failed) |-> <<FatalDescription[failed[i]], failed[i]>>]]

----------------------------------------------------------------------------
(* Granular scoring: compile_final_report                                  *)

\* the chain without its NA branch: -1 is floored like any negative score
ResolveScoreNoNA(param_score, param_max) ==
    IF param_score < 0 THEN 0
    ELSE IF param_score > param_max THEN param_max
    ELSE param_score

\* the chain without its upper clamp
ResolveScoreNoCap(param_score, param_max) ==
    IF param_score = NAScore THEN param_max
    ELSE IF param_score < 0 THEN 0
    ELSE param_score

\* the chain without its lower clamp
ResolveScoreNoFloor(param_score, param_max) ==
    IF param_score = NAScore THEN param_max
    ELSE IF param_score > param_max THEN param_max
    ELSE param_score

\* the NA / clamp chain applied to one raw score
ResolveScore(param_score, param_max) ==
    IF param_score = NAScore THEN param_max
    ELSE IF param_score < 0 THEN 0
    ELSE IF param_score > param_max THEN param_max
    ELSE param_score

\* is_na is set only in the NA branch
ResolveIsNA(param_score) == param_score = NAScore

\* is_fatal = param_id in fatal_param_ids
IsFatalParam(param_id) == param_id \in fatal_param_ids

\* a param_detail that takes max_points from the payload entry when the
\* oracle echoes one
ParamDetailTrustsEcho(sub_param, results) ==
    LET param_id == Get(sub_param, "id", "None")
        param_max == Get(Get(results, param_id, EmptyDict), "max_points",
                         Get(sub_param, "max_points", 0))
        raw == RawScore(results, param_id)
        param_score == ResolveScore(raw, param_max)
    IN  [id |-> param_id,
         max_points |-> param_max,
         points_awarded |-> param_score,
         score |-> param_score,
         percentage |-> IF param_max > 0 THEN RoundPercent(param_score, param_max) ELSE 0,
         is_na |-> ResolveIsNA(raw),
         is_fatal |-> IsFatalParam(param_id)]

\* param_detail of one rubric criterion (rationale, evidence and
\* validation_notes are copied through from the payload and not modelled)
ParamDetail(sub_param, results) ==
    LET param_id == Get(sub_param, "id", "None")
        param_max == Get(sub_param, "max_points", 0)
        raw == RawScore(results, param_id)
        param_score == ResolveScore(raw, param_max)
    IN  [id |-> param_id,
         max_points |-> param_max,
         points_awarded |-> param_score,
         score |-> param_score,
         percentage |-> IF param_max > 0 THEN RoundPercent(param_score, param_max) ELSE 0,
         is_na |-> ResolveIsNA(raw),
         is_fatal |-> IsFatalParam(param_id)]

\* a contribution that counts fatal criteria too
ContributionAll(detail) == detail.score

\* what one criterion adds to cat_awarded and total_awarded
Contribution(detail) == IF ~ detail.is_fatal THEN detail.score ELSE 0

\* details of the answered criteria only: a criterion the payload lacks is
\* left out
CatDetailsAnswered(category, results) ==
    LET subs == Get(category, "sub_parameters", <<>>)
        answered == SelectSeq(subs, LAMBDA sp : Get(sp, "id", "None") \in DOMAIN results)
    IN  [i \in 1 .. Len(answered) |-> ParamDetail(answered[i], results)]

\* cat_details of one category
CatDetails(category, results) ==
    LET subs == Get(category, "sub_parameters", <<>>)
    IN  [i \in 1 .. Len(subs) |-> ParamDetail(subs[i], results)]

\* cat_awarded of one category
CatAwarded(category, results) ==
    LET details == CatDetails(category, results)
    IN  SumSeq([i \in 1 .. Len(details) |-> Contribution(details[i])])

\* category_scores: a local of compile_final_report, keyed by category id
CategoryScores(rub, results) ==
    LET cats == Get(rub, "categories", <<>>)
        ids == {Get(cats[c], "id", "None") : c \in 1 .. Len(cats)}
        last(i) == CHOOSE c \in 1 .. Len(cats) :
                     /\ Get(cats[c], "id", "None") = i
                     /\ \A d \in 1 .. Len(cats) :
                          Get(cats[d], "id", "None") = i => d <= c
    IN  [i \in ids |->
           LET category == cats[last(i)]
               cat_max == Get(category, "max_points", 0)
               cat_awarded == CatAwarded(category, results)
           IN  [max_points |-> cat_max,
                score |-> cat_awarded,
                percentage |-> IF cat_max > 0 THEN RoundPercent(cat_awarded, cat_max) ELSE 0,
                parameters |-> CatDetails(category, results)]]

\* detailed scores whose points are wiped when the fatal gate triggers
DetailedScoresWiped(rub, results) ==
    LET cats == Get(rub, "categories", <<>>)
        all == Flatten([c \in 1 .. Len(cats) |-> CatDetails(cats[c], results)])
    IN  IF check_fatal_parameters(results, rub).is_fatal
        THEN [i \in 1 .. Len(all) |->
                [all[i] EXCEPT !.score = 0, !.points_awarded = 0, !.percentage = 0]]
        ELSE all

\* detailed_scores: every category's details, in rubric order
DetailedScores(rub, results) ==
    LET cats == Get(rub, "categories", <<>>)
    IN  Flatten([c \in 1 .. Len(cats) |-> CatDetails(cats[c], results)])

\* total_awarded as the loop leaves it, before the fatal override
TotalAwarded(rub, results) ==
    LET cats == Get(rub, "categories", <<>>)
    IN  SumSeq([c \in 1 .. Len(cats) |-> CatAwarded(cats[c], results)])

\* total_awarded after 'if is_fatal_failed: total_awarded = 0'
FinalTotal(is_fatal_failed, total_awarded) ==
    IF is_fatal_failed THEN 0 ELSE total_awarded

\* the dict compile_final_report returns
compile_final_report(results, rub) ==
    LET fatal == check_fatal_parameters(results, rub)
        total_possible == Get(rub, "total_points", DefaultTotalPoints)
        total_awarded == FinalTotal(fatal.is_fatal, TotalAwarded(rub, results))
        percentage == IF total_possible > 0
                      THEN RoundPercent(total_awarded, total_possible) ELSE 0
        base == [total_points |-> total_possible,
                 total_score |-> total_awarded,
                 percentage |-> percentage,
                 criteria_scores |-> DetailedScores(rub, results)]
    IN  IF fatal.is_fatal
        THEN base @@ [metadata |-> [fatal_parameter_failed |-> TRUE,
                                    failed_fatal_parameters |-> fatal.failed_fatal_params],
                      failed_fatal_parameters |-> fatal.failed_fatal_params]
        ELSE base @@ [metadata |-> [fatal_parameter_failed |-> FALSE]]

----------------------------------------------------------------------------
(* Transcription: text sanitizer.  A text is a sequence of characters; the *)
(* characters are told apart by what the sanitizer does with them.         *)

\* str.strip() removes these at both ends
Whitespace == {" "}

\* _clean_unicode deletes these: U+FFFD and the zero-width / directional
\* marks; none of them is whitespace for str.strip()
ZeroWidth == {"zw"}

RECURSIVE LStrip(_)
LStrip(t) == IF t # <<>> /\ Head(t) \in Whitespace THEN LStrip(Tail(t)) ELSE t

RECURSIVE RStrip(_)
RStrip(t) ==
    IF t # <<>> /\ t[Len(t)] \in Whitespace
    THEN RStrip(SubSeq(t, 1, Len(t) - 1)) ELSE t

\* str.strip()
Strip(t) == RStrip(LStrip(t))

\* _clean_unicode: delete the replacement and zero-width characters
clean_unicode(t) ==
    IF t = <<>> THEN <<>> ELSE SelectSeq(t, LAMBDA ch : ch \notin ZeroWidth)

\* sanitize_text: clean, then trim
sanitize_text(t) == IF t = <<>> THEN <<>> ELSE Strip(clean_unicode(t))

----------------------------------------------------------------------------
(* Transcription: merge_consecutive_speaker_segments                       *)

\* an absorption that leaves end_time at the first segment's value
MergeIntoKeepEnd(current, next_seg) ==
    [current EXCEPT
       !.text = sanitize_text(Strip(current.text) \o <<" ">> \o Strip(next_seg.text))]

\* the same-speaker branch of the loop: current absorbs next_seg
MergeInto(current, next_seg) ==
    [current EXCEPT
       !.end_time = next_seg.end_time,
       !.text = sanitize_text(Strip(current.text) \o <<" ">> \o Strip(next_seg.text))]

\* one iteration of the loop over segments[1:]
MergeStep(acc, next_seg) ==
    IF acc.current.speaker = next_seg.speaker
    THEN [acc EXCEPT !.current = MergeInto(acc.current, next_seg)]
    ELSE [merged |-> Append(acc.merged, acc.current), current |-> next_seg]

RECURSIVE MergeLoop(_, _)
MergeLoop(acc, rest) ==
    IF rest = <<>> THEN acc ELSE MergeLoop(MergeStep(acc, Head(rest)), Tail(rest))

\* a merge that closes the current segment after one absorption
RECURSIVE MergePairwise(_)
MergePairwise(segs) ==
    IF Len(segs) < 2 THEN segs
    ELSE IF segs[1].speaker = segs[2].speaker
         THEN <<MergeInto(segs[1], segs[2])>> \o MergePairwise(SubSeq(segs, 3, Len(segs)))
         ELSE <<segs[1]>> \o MergePairwise(Tail(segs))

merge_consecutive_speaker_segments(segs) ==
    IF segs = <<>> THEN <<>>
    ELSE LET acc == MergeLoop([merged |-> <<>>, current |-> Head(segs)], Tail(segs))
         IN  Append(acc.merged, acc.current)

----------------------------------------------------------------------------
(* Transcription: inputs of the merge                                      *)

\* longest segment list handed to the merge
MaxSegs == 3

Speakers == {"1", "2"}

Texts == { <<>>, <<"a">>, <<" ", "b">>, <<"a", "zw">>, <<"zw", " ">> }

\* (start_time, end_time) of an input segment
TimePairs == { <<0, 1>>, <<2, 4>> }

Segments ==
    { [speaker |-> sp, start_time |-> tp[1], end_time |-> tp[2], text |-> tx] :
        sp \in Speakers, tp \in TimePairs, tx \in Texts }

SegmentLists == UNION { [1 .. n -> Segments] : n \in 0 .. MaxSegs }

----------------------------------------------------------------------------
(* Transcription: normalize_speaker_labels                                 *)

\* f"Speaker {speaker_counter}"
SpeakerLabel(k) ==
    <<"Speaker 1", "Speaker 2", "Speaker 3", "Speaker 4", "Speaker 5",
      "Speaker 6">>[k]

\* a map built by scanning the list from its last segment to its first
RECURSIVE SpeakerMapFromEnd(_, _, _)
SpeakerMapFromEnd(segs, speaker_map, speaker_counter) ==
    IF segs = <<>> THEN speaker_map
    ELSE LET last == segs[Len(segs)]
             rest == SubSeq(segs, 1, Len(segs) - 1)
         IN  IF last.speaker \in DOMAIN speaker_map
             THEN SpeakerMapFromEnd(rest, speaker_map, speaker_counter)
             ELSE SpeakerMapFromEnd(rest,
                                    speaker_map @@ (last.speaker :> SpeakerLabel(speaker_counter)),
                                    speaker_counter + 1)

\* the first loop: a raw id gets the next label the first time it is seen
RECURSIVE BuildSpeakerMap(_, _, _)
BuildSpeakerMap(segs, speaker_map, speaker_counter) ==
    IF segs = <<>> THEN speaker_map
    ELSE IF Head(segs).speaker \in DOMAIN speaker_map
         THEN BuildSpeakerMap(Tail(segs), speaker_map, speaker_counter)
         ELSE BuildSpeakerMap(Tail(segs),
                              speaker_map @@ (Head(segs).speaker :> SpeakerLabel(speaker_counter)),
                              speaker_counter + 1)

\* the second loop: a copy of each segment with its speaker replaced
ApplySpeakerMap(segs, speaker_map) ==
    [i \in DOMAIN segs |-> [segs[i] EXCEPT !.speaker = speaker_map[segs[i].speaker]]]

normalize_speaker_labels(segs) ==
    IF segs = <<>> THEN <<>>
    ELSE ApplySpeakerMap(segs, BuildSpeakerMap(segs, EmptyDict, 1))

----------------------------------------------------------------------------
(* Transcription: transcribe_audio, from the token list to the result.     *)
(* A time is a whole number of ticks of 0.1 ms: a seconds field holding    *)
(* 1.2 is written 12000, a milliseconds field holding 1200 is written 1200.*)

\* float(raw) / 1000.0 of a milliseconds field, in ticks
FromMs(raw) == raw * 10

\* 'x / 1000.0 if x > 1000 else x' with x in seconds, in ticks
ScaleIfMs(x) == IF x > 10000000 THEN x \div 1000 ELSE x

\* round(x, 2) of x seconds, in ticks (ties to the even hundredth)
Round2(x) ==
    LET q == x \div 100
        r == x % 100
    IN  IF r < 50 THEN 100 * q
        ELSE IF r > 50 THEN 100 * (q + 1)
        ELSE IF q % 2 = 0 THEN 100 * q ELSE 100 * (q + 1)

\* current_seg = None
NoSeg == EmptyDict

\* sanitize_token_text: clean without trimming
sanitize_token_text(t) == IF t = <<>> THEN <<>> ELSE clean_unicode(t)

\* a resolution that reads the milliseconds field first
ResolveStartMsFirst(tok) ==
    IF "start_ms" \in DOMAIN tok THEN FromMs(tok.start_ms)
    ELSE IF "start_time" \in DOMAIN tok THEN tok.start_time
    ELSE 0

\* start: start_time, else start_ms / 1000, else 0.0
ResolveStart(tok) ==
    IF "start_time" \in DOMAIN tok THEN tok.start_time
    ELSE IF "start_ms" \in DOMAIN tok THEN FromMs(tok.start_ms)
    ELSE 0

\* end: end_time, else end_ms / 1000, else start
ResolveEnd(tok, start) ==
    IF "end_time" \in DOMAIN tok THEN tok.end_time
    ELSE IF "end_ms" \in DOMAIN tok THEN FromMs(tok.end_ms)
    ELSE start

\* the test that starts a new segment
OpensSegment(cur, speaker, start, threshold) ==
    \/ cur = NoSeg
    \/ cur.speaker # speaker
    \/ start - cur.end_time > threshold

\* an iteration in which a token without text closes the open segment
AggStepSkipCloses(acc, tok, threshold) ==
    LET text == sanitize_token_text(Get(tok, "text", <<>>))
        speaker == Get(tok, "speaker", "UNKNOWN")
        start == ResolveStart(tok)
        end == ResolveEnd(tok, start)
    IN  IF text = <<>>
        THEN [segments |-> IF acc.current # NoSeg
                           THEN Append(acc.segments, acc.current)
                           ELSE acc.segments,
              current |-> NoSeg,
              loc |-> [kind |-> "skip"]]
        ELSE IF OpensSegment(acc.current, speaker, start, threshold)
        THEN [segments |-> IF acc.current # NoSeg
                           THEN Append(acc.segments, acc.current)
                           ELSE acc.segments,
              current |-> [speaker |-> speaker,
                           start_time |-> ScaleIfMs(start),
                           end_time |-> ScaleIfMs(end),
                           text |-> text],
              loc |-> [kind |-> "open", start |-> start, end |-> end]]
        ELSE [segments |-> acc.segments,
              current |-> [acc.current EXCEPT
                             !.end_time = ScaleIfMs(end),
                             !.text = acc.current.text \o text],
              loc |-> [kind |-> "extend", start |-> start, end |-> end]]

\* an iteration that joins a token to the open segment with a space
AggStepSpaceJoined(acc, tok, threshold) ==
    LET text == sanitize_token_text(Get(tok, "text", <<>>))
        speaker == Get(tok, "speaker", "UNKNOWN")
        start == ResolveStart(tok)
        end == ResolveEnd(tok, start)
    IN  IF text = <<>>
        THEN [acc EXCEPT !.loc = [kind |-> "skip"]]
        ELSE IF OpensSegment(acc.current, speaker, start, threshold)
        THEN [segments |-> IF acc.current # NoSeg
                           THEN Append(acc.segments, acc.current)
                           ELSE acc.segments,
              current |-> [speaker |-> speaker,
                           start_time |-> ScaleIfMs(start),
                           end_time |-> ScaleIfMs(end),
                           text |-> text],
              loc |-> [kind |-> "open", start |-> start, end |-> end]]
        ELSE [segments |-> acc.segments,
              current |-> [acc.current EXCEPT
                             !.end_time = ScaleIfMs(end),
                             !.text = acc.current.text \o <<" ">> \o text],
              loc |-> [kind |-> "extend", start |-> start, end |-> end]]

\* one iteration of 'for tok in tokens' on acc = (segments, current_seg);
\* loc records the branch taken and the locals start and end
AggStep(acc, tok, threshold) ==
    LET text == sanitize_token_text(Get(tok, "text", <<>>))
        speaker == Get(tok, "speaker", "UNKNOWN")
        start == ResolveStart(tok)
        end == ResolveEnd(tok, start)
    IN  IF text = <<>>
        THEN [acc EXCEPT !.loc = [kind |-> "skip"]]
        ELSE IF OpensSegment(acc.current, speaker, start, threshold)
        THEN [segments |-> IF acc.current # NoSeg
                           THEN Append(acc.segments, acc.current)
                           ELSE acc.segments,
              current |-> [speaker |-> speaker,
                           start_time |-> ScaleIfMs(start),
                           end_time |-> ScaleIfMs(end),
                           text |-> text],
              loc |-> [kind |-> "open", start |-> start, end |-> end]]
        ELSE [segments |-> acc.segments,
              current |-> [acc.current EXCEPT
                             !.end_time = ScaleIfMs(end),
                             !.text = acc.current.text \o text],
              loc |-> [kind |-> "extend", start |-> start, end |-> end]]

\* 'if current_seg is not None: segments.append(current_seg)'
FlushedSegments(segs, cur) == IF cur # NoSeg THEN Append(segs, cur) ELSE segs

\* the whole token loop
RECURSIVE AggregateLoop(_, _, _)
AggregateLoop(acc, rest, threshold) ==
    IF rest = <<>> THEN acc
    ELSE AggregateLoop(AggStep(acc, Head(rest), threshold), Tail(rest), threshold)

\* the segments built from a token list: the loop, then the flush
Aggregate(toks, threshold) ==
    LET acc == AggregateLoop([segments |-> <<>>, current |-> NoSeg, loc |-> EmptyDict],
                             toks, threshold)
    IN  FlushedSegments(acc.segments, acc.current)

\* f"SPEAKER_UNKNOWN_{idx}"
SpeakerUnknown(idx) ==
    <<"SPEAKER_UNKNOWN_0", "SPEAKER_UNKNOWN_1", "SPEAKER_UNKNOWN_2",
      "SPEAKER_UNKNOWN_3", "SPEAKER_UNKNOWN_4", "SPEAKER_UNKNOWN_5">>[idx + 1]

\* one iteration of 'for idx, segment in enumerate(segments)' on
\* acc = (speaker_segments, total_duration).  An aggregated segment has no
\* speaker_id or speaker_label key, so a falsy speaker falls through to the
\* last alternative of the chain.
ConvertStep(acc, segment, idx) ==
    LET start_time == segment.start_time
        speaker_id == IF segment.speaker # "" THEN segment.speaker
                      ELSE SpeakerUnknown(idx)
        segment_text == sanitize_text(segment.text)
        end_time == IF segment.end_time < start_time
                    THEN start_time + 10000
                    ELSE segment.end_time
    IN  IF segment_text = <<>> THEN acc
        ELSE [speaker_segments |->
                Append(acc.speaker_segments,
                       [speaker |-> speaker_id,
                        start_time |-> Round2(start_time),
                        end_time |-> Round2(end_time),
                        duration |-> Round2(end_time - start_time),
                        text |-> segment_text]),
              total_duration |->
                IF end_time > acc.total_duration THEN end_time ELSE acc.total_duration]

RECURSIVE ConvertLoop(_, _, _)
ConvertLoop(acc, rest, idx) ==
    IF rest = <<>> THEN acc
    ELSE ConvertLoop(ConvertStep(acc, Head(rest), idx), Tail(rest), idx + 1)

\* post-processing without the merge of same-speaker neighbours
FinalSegmentsNoMerge(converted, normalize) ==
    IF normalize THEN normalize_speaker_labels(converted) ELSE converted

\* speaker_segments after the merge and the optional normalization
FinalSegments(converted, normalize) ==
    LET m == merge_consecutive_speaker_segments(converted)
    IN  IF normalize THEN normalize_speaker_labels(m) ELSE m

\* transcribe_audio from 'Convert segments to structured format' to return
BuildResult(segs, normalize) ==
    LET conv == ConvertLoop([speaker_segments |-> <<>>, total_duration |-> 0], segs, 0)
        final == FinalSegments(conv.speaker_segments, normalize)
    IN  [speaker_segments |-> final,
         duration |-> Round2(conv.total_duration),
         speaker_count |-> Cardinality({final[i].speaker : i \in DOMAIN final})]

----------------------------------------------------------------------------
(* Transcription: inputs                                                   *)

\* longest token list
MaxTokens == 3

\* tokens of a short call, of a call longer than 1000 s, and tokens with
\* missing, millisecond or inverted timing, without text, without speaker
\* or with an empty speaker
Tokens ==
    { [text |-> <<"a", " ">>, speaker |-> "1", start_time |-> 0, end_time |-> 10000],
      [text |-> <<"b">>, speaker |-> "1", start_time |-> 12000, end_time |-> 15000],
      [text |-> <<"b">>, speaker |-> "2", start_time |-> 20000, end_time |-> 25000],
      [text |-> <<" ", "b">>, speaker |-> "1", start_time |-> 20000, end_time |-> 25000],
      [text |-> <<"zw">>, speaker |-> "2", start_time |-> 12000, end_time |-> 15000],
      [speaker |-> "2", start_time |-> 50000, end_time |-> 60000],
      [text |-> <<"a">>, speaker |-> "2", start_ms |-> 1200, end_ms |-> 1500],
      [text |-> <<"a">>, speaker |-> "1"],
      [text |-> <<"b">>, speaker |-> "2", start_time |-> 20000, start_ms |-> 1200,
       end_ms |-> 1500],
      [text |-> <<"a">>, speaker |-> "1", start_time |-> 9000000, end_time |-> 9500000],
      [text |-> <<"b">>, speaker |-> "1", start_time |-> 12000000, end_time |-> 13000000],
      [text |-> <<"a">>, speaker |-> "1", start_time |-> 13000000, end_time |-> 13500000],
      [text |-> <<" ">>, speaker |-> "2", start_time |-> 20000, end_time |-> 25000],
      [text |-> <<"a">>, start_time |-> 30000],
      [text |-> <<"b">>, speaker |-> "", start_time |-> 40000, end_time |-> 41000] }

TokenLists == UNION { [1 .. n -> Tokens] : n \in 1 .. MaxTokens }

\* (merge_threshold, normalize_speakers): the defaults 0.5 s and True, and
\* one other value of each
Configs == { <<5000, TRUE>>, <<5000, FALSE>>, <<0, TRUE>> }

\* segment lists handed to normalize_speaker_labels
LabelSpeakers == {"S2", "S5", "S9"}

LabelSegments ==
    { [speaker |-> sp, start_time |-> tp[1], end_time |-> tp[2],
       duration |-> tp[2] - tp[1], text |-> tx] :
        sp \in LabelSpeakers, tp \in TimePairs, tx \in {<<"a">>, <<" ", "b">>} }

LabelSegmentLists == UNION { [1 .. n -> LabelSegments] : n \in 0 .. MaxSegs }

----------------------------------------------------------------------------
(* Discrete scoring: score_with_openai after json.loads,                   *)
(* convert_yes_no_na_to_scores and the totals of score_transcript          *)

\* a JSON value of the payload: an object with its fields, a string, null
Dict(fields) == [kind |-> "dict", fields |-> fields]

Str(value) == [kind |-> "str", value |-> value]

Null == [kind |-> "null"]

\* str.lower() on the strings that occur
Lower(s) ==
    CASE s = "Yes" -> "yes"
      [] s = "YES" -> "yes"
      [] s = "No" -> "no"
      [] s = "NO" -> "no"
      [] s = "NA" -> "na"
      [] s = "V" -> "v"
      [] OTHER -> s

\* str.upper() on the strings that occur
Upper(s) ==
    CASE s = "yes" -> "YES"
      [] s = "Yes" -> "YES"
      [] s = "no" -> "NO"
      [] s = "na" -> "NA"
      [] s = "maybe" -> "MAYBE"
      [] OTHER -> s

\* bool(value): an empty object, an empty string and null are falsy
Truthy(v) ==
    CASE v.kind = "dict" -> v.fields # EmptyDict
      [] v.kind = "str" -> v.value # ""
      [] v.kind = "null" -> FALSE

\* str(value): a string is itself, an object prints as a brace expression
StrOf(v) ==
    CASE v.kind = "dict" -> "{...}"
      [] v.kind = "str" -> v.value
      [] v.kind = "null" -> "None"

\* 'if answer not in ["yes", "no", "na"]: answer = "na"'
Recognized(answer) == IF answer \in {"yes", "no", "na"} THEN answer ELSE "na"

\* isinstance(v, dict) for every value of the payload
AllDicts(payload) == \A k \in DOMAIN payload : payload[k].kind = "dict"

\* the structured branch for one criterion id
StructuredAnswer(payload, cid) ==
    LET entry == Get(payload, cid, Dict(EmptyDict))
    IN  IF entry.kind = "dict"
        THEN Recognized(Lower(Get(entry.fields, "answer", "na")))
        ELSE Recognized(Lower(IF Truthy(entry) THEN StrOf(entry) ELSE "na"))

\* the legacy branch for one criterion id
LegacyAnswer(payload, cid) ==
    LET value == Get(payload, cid, Str("na"))
    IN  Recognized(Lower(IF Truthy(value) THEN StrOf(value) ELSE "na"))

\* the branch is chosen once for the whole payload
ResolveAnswer(payload, cid) ==
    IF AllDicts(payload) THEN StructuredAnswer(payload, cid) ELSE LegacyAnswer(payload, cid)

\* score_with_openai from 'raw = json.loads(result_text)' to its return;
\* the rationale texts play no part in the scores and are left out
score_with_openai(payload, rub) ==
    LET criterion_ids == {rub.criteria[i].id : i \in DOMAIN rub.criteria}
    IN  [answers |-> [cid \in criterion_ids |-> ResolveAnswer(payload, cid)]]

\* the inner loop: the points of the first level whose label matches
RECURSIVE LevelPoints(_, _)
LevelPoints(levels, response) ==
    IF levels = <<>> THEN 0
    ELSE IF Lower(Head(levels).label) = response THEN Head(levels).points
    ELSE LevelPoints(Tail(levels), response)

convert_yes_no_na_to_scores(yes_no_na_scores, rub) ==
    [i \in DOMAIN rub.criteria |->
        LET criterion == rub.criteria[i]
            response == Lower(Get(yes_no_na_scores, criterion.id, "na"))
            points_awarded == LevelPoints(criterion.levels, response)
        IN  [id |-> criterion.id,
             max_points |-> criterion.max_points,
             points_awarded |-> points_awarded,
             score |-> points_awarded,
             response |-> Upper(response)]]

\* score_transcript after the rubric is loaded
score_transcript(payload, rub) ==
    LET data == score_with_openai(payload, rub)
        yes_no_na_scores == Get(data, "answers", EmptyDict)
        criteria_scores == convert_yes_no_na_to_scores(yes_no_na_scores, rub)
        total_points == Get(rub, "total_points", DefaultTotalPoints)
        total_score == SumSeq([i \in DOMAIN criteria_scores |->
                                 criteria_scores[i].points_awarded])
    IN  [total_points |-> total_points,
         total_score |-> total_score,
         percentage |-> IF total_points > 0 THEN RoundPercent(total_score, total_points)
                        ELSE 0,
         criteria_scores |-> criteria_scores,
         yes_no_na_responses |-> yes_no_na_scores]

(* Discrete scoring: inputs *)

V1Levels == <<[label |-> "Yes", points |-> 10], [label |-> "No", points |-> 0],
              [label |-> "NA", points |-> 10]>>

\* a criterion without an NA level
V1LevelsNoNA == <<[label |-> "yes", points |-> 5], [label |-> "no", points |-> 1]>>

V1Criterion1 == [id |-> "c1", max_points |-> 10, levels |-> V1Levels]

V1Criterion2 == [id |-> "c2", max_points |-> 5, levels |-> V1LevelsNoNA]

V1Rubrics ==
    { [criteria |-> <<V1Criterion1, V1Criterion2>>, total_points |-> 15],
      [criteria |-> <<V1Criterion2, V1Criterion1>>],
      [criteria |-> <<V1Criterion1>>, total_points |-> 0] }

\* what the oracle can send under one key
V1Entries ==
    { Dict([answer |-> "yes"]), Dict([answer |-> "NO"]), Dict([answer |-> "maybe"]),
      Dict([rationale |-> "r"]), Dict(EmptyDict),
      Str("yes"), Str("NO"), Str("maybe"), Str(""), Null }

\* the keys of a payload: the criterion ids and a key that is no criterion
V1Keys == {"c1", "c2", "summary"}

V1Payloads == UNION { [ks -> V1Entries] : ks \in SUBSET V1Keys }

----------------------------------------------------------------------------
(* Scoring run: the payload arrives, then the report is compiled           *)

NoReport == EmptyDict

ScoringIdle ==
    /\ rubric = EmptyDict
    /\ scoring_results = EmptyDict
    /\ report = NoReport
    /\ phase = "idle"

MergeIdle ==
    /\ segments = <<>>
    /\ merged = <<>>
    /\ remerged = <<>>
    /\ mphase = "idle"

TransIdle ==
    /\ tokens = <<>>
    /\ merge_threshold = 5000
    /\ normalize_speakers = TRUE
    /\ tpos = 0
    /\ current_seg = NoSeg
    /\ tok_segments = <<>>
    /\ loc = EmptyDict
    /\ tresult = EmptyDict
    /\ tphase = "idle"

LabelIdle ==
    /\ label_input = <<>>
    /\ normalized = <<>>
    /\ lphase = "idle"

\* no exception
NoError == EmptyDict

ProviderIdle ==
    /\ penv = EmptyDict
    /\ pstep = "idle"
    /\ job_status = "none"
    /\ observed = ""
    /\ polls = 0
    /\ sleep_s = 0
    /\ last_request = "none"
    /\ transcript_json = EmptyDict
    /\ presult = EmptyDict
    /\ perror = NoError

DiscreteIdle ==
    /\ v1_rubric = EmptyDict
    /\ v1_raw = EmptyDict
    /\ scoring_data = EmptyDict
    /\ v1_report = EmptyDict
    /\ v1phase = "idle"

\* a payload without an ill-typed entry
NoFault == EmptyDict

ShapeIdle ==
    /\ fault = NoFault

EndpointIdle ==
    /\ transcript_data = EmptyDict
    /\ score_response = EmptyDict
    /\ ephase = "idle"

AudioIdle ==
    /\ audio_requests = EmptyDict
    /\ apc = EmptyDict
    /\ tmp_audio = EmptyDict
    /\ inodes = EmptyDict
    /\ fds = EmptyDict
    /\ audio_responses = EmptyDict

Init ==
    /\ AudioIdle
    /\ EndpointIdle
    /\ ShapeIdle
    /\ DiscreteIdle
    /\ ProviderIdle
    /\ rubric \in Rubrics
    /\ scoring_results \in Payloads
    /\ report = NoReport
    /\ phase = "scored"
    /\ MergeIdle
    /\ TransIdle
    /\ LabelIdle

CompileFinalReport ==
    /\ phase = "scored"
    /\ report' = compile_final_report(scoring_results, rubric)
    /\ phase' = "compiled"
    /\ UNCHANGED <<rubric, scoring_results, mergeVars, transVars, labelVars, providerVars, discreteVars, shapeVars, endpointVars, audioVars>>

Next == CompileFinalReport

Spec == Init /\ [][Next]_vars

----------------------------------------------------------------------------
(* Merge run: a segment list is merged, and the result merged again        *)

InitMerge ==
    /\ AudioIdle
    /\ EndpointIdle
    /\ ShapeIdle
    /\ DiscreteIdle
    /\ ProviderIdle
    /\ ScoringIdle
    /\ TransIdle
    /\ LabelIdle
    /\ segments \in SegmentLists
    /\ merged = <<>>
    /\ remerged = <<>>
    /\ mphase = "input"

MergeSegments ==
    /\ mphase = "input"
    /\ merged' = merge_consecutive_speaker_segments(segments)
    /\ mphase' = "merged"
    /\ UNCHANGED <<segments, remerged, scoringVars, transVars, labelVars, providerVars, discreteVars, shapeVars, endpointVars, audioVars>>

MergeAgain ==
    /\ mphase = "merged"
    /\ remerged' = merge_consecutive_speaker_segments(merged)
    /\ mphase' = "remerged"
    /\ UNCHANGED <<segments, merged, scoringVars, transVars, labelVars, providerVars, discreteVars, shapeVars, endpointVars, audioVars>>

NextMerge == MergeSegments \/ MergeAgain

SpecMerge == InitMerge /\ [][NextMerge]_vars

----------------------------------------------------------------------------
(* Transcription run: the token loop one iteration at a time, the flush    *)
(* at the end of the stream, then the rest of transcribe_audio             *)

InitTranscribe ==
    /\ AudioIdle
    /\ EndpointIdle
    /\ ShapeIdle
    /\ DiscreteIdle
    /\ ProviderIdle
    /\ ScoringIdle
    /\ MergeIdle
    /\ LabelIdle
    /\ tokens \in TokenLists
    /\ \E c \in Configs : merge_threshold = c[1] /\ normalize_speakers = c[2]
    /\ tpos = 0
    /\ current_seg = NoSeg
    /\ tok_segments = <<>>
    /\ loc = EmptyDict
    /\ tresult = EmptyDict
    /\ tphase = "tokens"

\* the next iteration of the loop, taking the branch 'kind'
ProcessToken(kind) ==
    /\ tphase = "tokens"
    /\ tpos < Len(tokens)
    /\ LET r == AggStep([segments |-> tok_segments, current |-> current_seg, loc |-> loc],
                        tokens[tpos + 1], merge_threshold)
       IN  /\ r.loc.kind = kind
           /\ tok_segments' = r.segments
           /\ current_seg' = r.current
           /\ loc' = r.loc
    /\ tpos' = tpos + 1
    /\ UNCHANGED <<tokens, merge_threshold, normalize_speakers, tresult, tphase,
                   scoringVars, mergeVars, labelVars, providerVars, discreteVars, shapeVars, endpointVars, audioVars>>

SkipToken == ProcessToken("skip")

OpenSegment == ProcessToken("open")

ExtendSegment == ProcessToken("extend")

FlushSegment ==
    /\ tphase = "tokens"
    /\ tpos = Len(tokens)
    /\ tok_segments' = FlushedSegments(tok_segments, current_seg)
    /\ tphase' = "aggregated"
    /\ UNCHANGED <<tokens, merge_threshold, normalize_speakers, tpos, current_seg, loc,
                   tresult, scoringVars, mergeVars, labelVars, providerVars, discreteVars, shapeVars, endpointVars, audioVars>>

ReturnResult ==
    /\ tphase = "aggregated"
    /\ tresult' = BuildResult(tok_segments, normalize_speakers)
    /\ tphase' = "done"
    /\ UNCHANGED <<tokens, merge_threshold, normalize_speakers, tpos, current_seg, loc,
                   tok_segments, scoringVars, mergeVars, labelVars, providerVars, discreteVars, shapeVars, endpointVars, audioVars>>

NextTranscribe ==
    SkipToken \/ OpenSegment \/ ExtendSegment \/ FlushSegment \/ ReturnResult

SpecTranscribe == InitTranscribe /\ [][NextTranscribe]_vars

----------------------------------------------------------------------------
(* Label run: normalize_speaker_labels on a segment list                   *)

InitLabels ==
    /\ AudioIdle
    /\ EndpointIdle
    /\ ShapeIdle
    /\ DiscreteIdle
    /\ ProviderIdle
    /\ ScoringIdle
    /\ MergeIdle
    /\ TransIdle
    /\ label_input \in LabelSegmentLists
    /\ normalized = <<>>
    /\ lphase = "input"

\* a normalization that relabels the caller's list instead of a copy
NormalizeLabelsInPlace ==
    /\ lphase = "input"
    /\ normalized' = normalize_speaker_labels(label_input)
    /\ label_input' = normalized'
    /\ lphase' = "normalized"
    /\ UNCHANGED <<scoringVars, mergeVars, transVars, providerVars, discreteVars, shapeVars, endpointVars, audioVars>>

NormalizeLabels ==
    /\ lphase = "input"
    /\ normalized' = normalize_speaker_labels(label_input)
    /\ lphase' = "normalized"
    /\ UNCHANGED <<label_input, scoringVars, mergeVars, transVars, providerVars, discreteVars, shapeVars, endpointVars, audioVars>>

NextLabels == NormalizeLabels

SpecLabels == InitLabels /\ [][NextLabels]_vars

----------------------------------------------------------------------------
(* Provider run: transcribe_audio from its first line to its return or     *)
(* raise - the checks, upload, create, the poll loop, the token fetch      *)

\* polls are counted up to this number; the loop itself has no bound
MaxPolls == 2

\* time.sleep(1)
PollInterval == 1

\* what a request to the provider can come to: a response, or one of the
\* three exceptions the function catches by name
RequestOutcomes == {"ok", "http_error", "timeout", "network_error"}

\* a ValueError raised before the try block keeps its message
Plain(message) == [prefix |-> "", message |-> message]

\* the ValueError raised by the handler that catches the exception
RequestError(outcome) ==
    CASE outcome = "http_error" -> Plain("Transcription API error")
      [] outcome = "timeout" ->
           Plain("Transcription request timed out. File may be too large.")
      [] outcome = "network_error" -> Plain("Network error during transcription")

\* a ValueError raised inside the try block is caught by 'except Exception'
\* and raised again with this prefix
Wrapped(message) == [prefix |-> "Transcription failed: ", message |-> message]

JobStatuses == {"queued", "processing", "completed", "error"}

\* transcript responses: without a tokens key, with an empty list, with
\* tokens whose text is only a zero-width character or only a space, and
\* with ordinary tokens
TokenZW == [text |-> <<"zw">>, speaker |-> "2", start_time |-> 12000, end_time |-> 15000]

TokenSpace == [text |-> <<" ">>, speaker |-> "2", start_time |-> 20000, end_time |-> 25000]

TokenA == [text |-> <<"a", " ">>, speaker |-> "1", start_time |-> 0, end_time |-> 10000]

TokenB == [text |-> <<"b">>, speaker |-> "2", start_time |-> 20000, end_time |-> 25000]

TranscriptResponses ==
    { EmptyDict,
      [tokens |-> <<>>],
      [tokens |-> <<TokenZW>>],
      [tokens |-> <<TokenSpace>>],
      [tokens |-> <<TokenZW, TokenSpace>>],
      [tokens |-> <<TokenA>>],
      [tokens |-> <<TokenA, TokenZW, TokenB>>],
      [tokens |-> <<TokenSpace, TokenB>>] }

InitProvider ==
    /\ AudioIdle
    /\ EndpointIdle
    /\ ShapeIdle
    /\ DiscreteIdle
    /\ ScoringIdle
    /\ MergeIdle
    /\ TransIdle
    /\ LabelIdle
    /\ penv \in [api_key : BOOLEAN, file_exists : BOOLEAN]
    /\ pstep = "start"
    /\ job_status = "none"
    /\ observed = ""
    /\ polls = 0
    /\ sleep_s = 0
    /\ last_request = "none"
    /\ transcript_json \in TranscriptResponses
    /\ presult = EmptyDict
    /\ perror = NoError

\* the run ends by raising
Raise(error) ==
    /\ pstep' = "failed"
    /\ perror' = error
    /\ UNCHANGED presult

\* the two checks before the try block; their errors are not wrapped
CheckPreconditions ==
    /\ pstep = "start"
    /\ IF ~ penv.api_key
       THEN Raise(Plain("SONIOX_API_KEY environment variable is not set"))
       ELSE IF ~ penv.file_exists
       THEN Raise(Plain("Audio file not found"))
       ELSE pstep' = "ready" /\ UNCHANGED <<presult, perror>>
    /\ UNCHANGED <<penv, job_status, observed, polls, sleep_s, last_request,
                   transcript_json, scoringVars, mergeVars, transVars, labelVars, discreteVars, shapeVars, endpointVars, audioVars>>

\* 1) POST /v1/files
Upload ==
    /\ pstep = "ready"
    /\ last_request' = "upload"
    /\ \E outcome \in RequestOutcomes, has_id \in BOOLEAN :
         IF outcome # "ok" THEN Raise(RequestError(outcome))
         ELSE IF ~ has_id THEN Raise(Wrapped("Soniox upload did not return file id"))
         ELSE pstep' = "uploaded" /\ UNCHANGED <<presult, perror>>
    /\ UNCHANGED <<penv, job_status, observed, polls, sleep_s,
                   transcript_json, scoringVars, mergeVars, transVars, labelVars, discreteVars, shapeVars, endpointVars, audioVars>>

\* 2) POST /v1/transcriptions
CreateTranscription ==
    /\ pstep = "uploaded"
    /\ last_request' = "create"
    /\ \E outcome \in RequestOutcomes, has_id \in BOOLEAN :
         IF outcome # "ok"
         THEN Raise(RequestError(outcome)) /\ UNCHANGED job_status
         ELSE /\ job_status' = "queued"
              /\ IF ~ has_id
                 THEN Raise(Wrapped("Soniox create_transcription did not return id"))
                 ELSE pstep' = "created" /\ UNCHANGED <<presult, perror>>
    /\ UNCHANGED <<penv, observed, polls, sleep_s,
                   transcript_json, scoringVars, mergeVars, transVars, labelVars, discreteVars, shapeVars, endpointVars, audioVars>>

\* the provider works on the job between two polls
ProviderProgress ==
    /\ pstep \in {"created", "polling"}
    /\ \/ job_status = "queued" /\ job_status' \in {"processing", "completed", "error"}
       \/ job_status = "processing" /\ job_status' \in {"completed", "error"}
    /\ UNCHANGED <<penv, pstep, observed, polls, sleep_s, last_request, transcript_json,
                   presult, perror, scoringVars, mergeVars, transVars, labelVars, discreteVars, shapeVars, endpointVars, audioVars>>

CountPoll == IF polls < MaxPolls THEN polls + 1 ELSE polls

\* a poll loop that leaves on any status but 'error'
PollAnyStatusCompletes ==
    /\ pstep \in {"created", "polling"}
    /\ last_request' = "poll"
    /\ polls' = CountPoll
    /\ \E outcome \in RequestOutcomes :
         IF outcome # "ok"
         THEN Raise(RequestError(outcome)) /\ UNCHANGED <<observed, sleep_s>>
         ELSE /\ observed' = job_status
              /\ sleep_s' = 0
              /\ IF job_status = "error"
                 THEN Raise(Wrapped("Soniox transcription error"))
                 ELSE pstep' = "completed" /\ UNCHANGED <<presult, perror>>
    /\ UNCHANGED <<penv, job_status, transcript_json,
                   scoringVars, mergeVars, transVars, labelVars, discreteVars, shapeVars, endpointVars, audioVars>>

\* 3) one iteration of 'while True': GET /v1/transcriptions/{id}
Poll ==
    /\ pstep \in {"created", "polling"}
    /\ last_request' = "poll"
    /\ polls' = CountPoll
    /\ \E outcome \in RequestOutcomes :
         IF outcome # "ok"
         THEN Raise(RequestError(outcome)) /\ UNCHANGED <<observed, sleep_s>>
         ELSE /\ observed' = job_status
              /\ IF job_status = "completed"
                 THEN pstep' = "completed" /\ sleep_s' = 0 /\ UNCHANGED <<presult, perror>>
                 ELSE IF job_status = "error"
                 THEN Raise(Wrapped("Soniox transcription error")) /\ sleep_s' = 0
                 ELSE /\ pstep' = "polling"
                      /\ sleep_s' = PollInterval
                      /\ UNCHANGED <<presult, perror>>
    /\ UNCHANGED <<penv, job_status, transcript_json,
                   scoringVars, mergeVars, transVars, labelVars, discreteVars, shapeVars, endpointVars, audioVars>>

\* what the rest of the function returns for each non-empty token list a
\* response can carry
ProviderResults ==
    [toks \in {Get(r, "tokens", <<>>) : r \in TranscriptResponses} \ {<<>>} |->
        BuildResult(Aggregate(toks, 5000), TRUE)]

\* 4) GET .../transcript, then the rest of the function on its tokens,
\* with the default merge_threshold and normalize_speakers
FetchTokens ==
    /\ pstep = "completed"
    /\ last_request' = "fetch"
    /\ sleep_s' = 0
    /\ \E outcome \in RequestOutcomes :
         IF outcome # "ok" THEN Raise(RequestError(outcome))
         ELSE LET toks == Get(transcript_json, "tokens", <<>>)
              IN  IF toks = <<>>
                  THEN Raise(Wrapped("Soniox transcript response did not contain any tokens"))
                  ELSE /\ presult' = ProviderResults[toks]
                       /\ pstep' = "returned"
                       /\ UNCHANGED perror
    /\ UNCHANGED <<penv, job_status, observed, polls, transcript_json,
                   scoringVars, mergeVars, transVars, labelVars, discreteVars, shapeVars, endpointVars, audioVars>>

ProviderStep == CheckPreconditions \/ Upload \/ CreateTranscription \/ Poll \/ FetchTokens

NextProvider == ProviderStep \/ ProviderProgress

SpecProvider == InitProvider /\ [][NextProvider]_vars

\* the function keeps running while it can: nothing but the provider's
\* answers holds it back
SpecProviderFair == SpecProvider /\ WF_vars(ProviderStep)

----------------------------------------------------------------------------
(* Discrete run: the payload arrives, the answers are resolved, the        *)
(* report is built                                                         *)

InitDiscrete ==
    /\ AudioIdle
    /\ EndpointIdle
    /\ ShapeIdle
    /\ ScoringIdle
    /\ MergeIdle
    /\ TransIdle
    /\ LabelIdle
    /\ ProviderIdle
    /\ v1_rubric \in V1Rubrics
    /\ v1_raw \in V1Payloads
    /\ scoring_data = EmptyDict
    /\ v1_report = EmptyDict
    /\ v1phase = "answered"

ScoreWithOpenAI ==
    /\ v1phase = "answered"
    /\ scoring_data' = score_with_openai(v1_raw, v1_rubric)
    /\ v1phase' = "resolved"
    /\ UNCHANGED <<v1_rubric, v1_raw, v1_report,
                   scoringVars, mergeVars, transVars, labelVars, providerVars, shapeVars, endpointVars, audioVars>>

ScoreTranscript ==
    /\ v1phase = "resolved"
    /\ v1_report' = score_transcript(v1_raw, v1_rubric)
    /\ v1phase' = "scored"
    /\ UNCHANGED <<v1_rubric, v1_raw, scoring_data,
                   scoringVars, mergeVars, transVars, labelVars, providerVars, shapeVars, endpointVars, audioVars>>

NextDiscrete == ScoreWithOpenAI \/ ScoreTranscript

SpecDiscrete == InitDiscrete /\ [][NextDiscrete]_vars

----------------------------------------------------------------------------
(* Typed run: compile_final_report on a payload with one ill-typed entry.  *)
(* The entry is described by 'fault' (its key and what is wrong with it);  *)
(* scoring_results holds the other entries.                                *)

\* the entry is not an object (a string, a list, a number, null), or it is
\* an object whose score is a string, null or a list
FaultKinds == {"not_object", "score_string", "score_null", "score_list"}

Faults == [key : PayloadKeys, kind : FaultKinds]

\* check_fatal_parameters calls result.get on the entry of each of its four
\* ids: an entry that is not an object raises AttributeError there
FatalCheckRaises(f) == f # NoFault /\ f.kind = "not_object" /\ f.key \in fatal_param_ids

\* the ids the compile loop visits
VisitedIds(rub) ==
    LET cats == Get(rub, "categories", <<>>)
        subs == Flatten([c \in 1 .. Len(cats) |-> Get(cats[c], "sub_parameters", <<>>)])
    IN  {Get(subs[i], "id", "None") : i \in 1 .. Len(subs)}

\* the exception compile_final_report ends with, "" for none: result.get on a
\* non-object raises AttributeError; 'param_score == -1' is False for a
\* string, null or list and 'param_score < 0' then raises TypeError
RaisedBy(f, rub) ==
    IF f = NoFault THEN ""
    ELSE IF FatalCheckRaises(f) THEN "AttributeError"
    ELSE IF f.key \notin VisitedIds(rub) THEN ""
    ELSE IF f.kind = "not_object" THEN "AttributeError"
    ELSE "TypeError"

\* the payload as the code sees it when nothing is raised: an ill-typed
\* score under a key the loop never visits is compared with -1 and 0 only,
\* as any other score would be; a non-object under such a key is never read
SeenPayload(results, f) ==
    IF f = NoFault \/ f.kind = "not_object" THEN results
    ELSE [k \in DOMAIN results \cup {f.key} |->
            IF k = f.key THEN [score |-> 1] ELSE results[k]]

\* compile_final_report on the typed payload: an exception or the report
compile_typed(results, f, rub) ==
    IF RaisedBy(f, rub) # ""
    THEN [raised |-> RaisedBy(f, rub)]
    ELSE compile_final_report(SeenPayload(results, f), rub)

\* the well-typed entries: every key but the faulty one answered with 1
InitShape ==
    /\ AudioIdle
    /\ EndpointIdle
    /\ MergeIdle
    /\ TransIdle
    /\ LabelIdle
    /\ ProviderIdle
    /\ DiscreteIdle
    /\ rubric \in Rubrics
    /\ fault \in Faults \cup {NoFault}
    /\ scoring_results =
         [k \in PayloadKeys \ (IF fault = NoFault THEN {} ELSE {fault.key}) |-> AllPass[k]]
    /\ report = NoReport
    /\ phase = "scored"

CompileTyped ==
    /\ phase = "scored"
    /\ report' = compile_typed(scoring_results, fault, rubric)
    /\ phase' = "compiled"
    /\ UNCHANGED <<rubric, scoring_results, fault, mergeVars, transVars, labelVars,
                   providerVars, discreteVars, endpointVars, audioVars>>

NextShape == CompileTyped

SpecShape == InitShape /\ [][NextShape]_vars

----------------------------------------------------------------------------
(* Score endpoint: score_transcript_endpoint                               *)

\* values of the request's version field, as character sequences
Versions == {<<"v", "1">>, <<"V", "1">>, <<"v", "2">>, <<"V", "2">>, <<"v", "3">>,
             <<"2">>, <<"v">>, <<>>}

\* values of the request's transcription field: empty, blank, transcripts
Transcriptions == {<<>>, <<" ">>, <<"a">>, <<"a", " ", "b">>}

\* request bodies: version and transcription are optional
ScoreRequests ==
    UNION { [ks -> Versions \cup Transcriptions] : ks \in SUBSET {"version", "transcription"} }

WellFormedRequest(req) ==
    /\ "version" \in DOMAIN req => req.version \in Versions
    /\ "transcription" \in DOMAIN req => req.transcription \in Transcriptions

\* str.lower() over a character sequence
LowerText(text) == [i \in DOMAIN text |-> Lower(text[i])]

\* version = transcript_data.get("version", "v2").lower()
SelectedVersion(req) == LowerText(Get(req, "version", <<"v", "2">>))

\* the scorer the endpoint calls
ScorerFor(version) ==
    IF version = <<"v", "2">> THEN "score_transcript_main" ELSE "score_transcript"

\* both scorers start with 'if not transcript or not transcript.strip()'
TranscriptMissing(req) == Strip(Get(req, "transcription", <<>>)) = <<>>

\* how a call of the scorer can end: ValueError for a missing transcript;
\* otherwise a result, a ValueError or another exception, as the oracle and
\* the rubric files decide
ScorerOutcomes(req) ==
    IF TranscriptMissing(req) THEN {"ValueError"}
    ELSE {"result", "ValueError", "Exception"}

\* the status the endpoint answers with
StatusFor(outcome) ==
    CASE outcome = "result" -> 200
      [] outcome = "ValueError" -> 400
      [] outcome = "Exception" -> 500

InitEndpoint ==
    /\ AudioIdle
    /\ ScoringIdle
    /\ MergeIdle
    /\ TransIdle
    /\ LabelIdle
    /\ ProviderIdle
    /\ DiscreteIdle
    /\ ShapeIdle
    /\ transcript_data \in {req \in ScoreRequests : WellFormedRequest(req)}
    /\ score_response = EmptyDict
    /\ ephase = "received"

ScoreTranscriptEndpoint ==
    /\ ephase = "received"
    /\ \E outcome \in ScorerOutcomes(transcript_data) :
         score_response' = [version |-> SelectedVersion(transcript_data),
                            scorer |-> ScorerFor(SelectedVersion(transcript_data)),
                            outcome |-> outcome,
                            status |-> StatusFor(outcome)]
    /\ ephase' = "answered"
    /\ UNCHANGED <<transcript_data, scoringVars, mergeVars, transVars, labelVars,
                   providerVars, discreteVars, shapeVars, audioVars>>

NextEndpoint == ScoreTranscriptEndpoint

SpecEndpoint == InitEndpoint /\ [][NextEndpoint]_vars

----------------------------------------------------------------------------
(* Transcribe endpoint: two requests on one event loop                     *)

\* the two requests; a file created by request r gets inode r
AudioRequests == {1, 2}

\* file.filename: two names, and "" for a missing name
Filenames == {"a.wav", "b.wav", ""}

\* file contents: empty, and two contents of different length
Contents == {<<>>, <<"x">>, <<"y", "y">>}

\* f"audio_{uuid.uuid4().hex[:8]}": a fresh name for each request
GeneratedName(r) == IF r = 1 THEN "audio_1f3a9c20" ELSE "audio_7be4d015"

\* filename = file.filename or f"audio_..."; audio_path = tmp_dir / filename
AudioPath(r) ==
    IF audio_requests[r].filename # "" THEN audio_requests[r].filename
    ELSE GeneratedName(r)

\* what the transcription can answer once the file was uploaded
UploadOutcomes == {"ok", "ValueError"}

NoResponse == [status |-> 0, detail |-> "", uploaded |-> <<>>]

\* a write of new at offset 0 over the bytes old
Overwrite(old, new) == new \o SubSeq(old, Len(new) + 1, Len(old))

\* d with key k removed
Without(d, k) == [j \in DOMAIN d \ {k} |-> d[j]]

InitAudio ==
    /\ ScoringIdle
    /\ MergeIdle
    /\ TransIdle
    /\ LabelIdle
    /\ ProviderIdle
    /\ DiscreteIdle
    /\ ShapeIdle
    /\ EndpointIdle
    /\ audio_requests \in [AudioRequests -> [filename : Filenames, content : Contents]]
    /\ apc = [r \in AudioRequests |-> "received"]
    /\ tmp_audio = EmptyDict
    /\ inodes = [r \in AudioRequests |-> <<>>]
    /\ fds = [r \in AudioRequests |-> 0]
    /\ audio_responses = [r \in AudioRequests |-> NoResponse]

\* the handler up to 'await file.read()': open(audio_path, "wb") creates
\* the file or truncates the one that is there
OpenForWrite(r) ==
    /\ apc[r] = "received"
    /\ LET inode == Get(tmp_audio, AudioPath(r), r)
       IN  /\ tmp_audio' = [j \in DOMAIN tmp_audio \cup {AudioPath(r)} |->
                              IF j = AudioPath(r) THEN inode ELSE tmp_audio[j]]
           /\ inodes' = [inodes EXCEPT ![inode] = <<>>]
           /\ fds' = [fds EXCEPT ![r] = inode]
    /\ apc' = [apc EXCEPT ![r] = "reading"]
    /\ UNCHANGED <<audio_requests, audio_responses, scoringVars, mergeVars, transVars,
                   labelVars, providerVars, discreteVars, shapeVars, endpointVars>>

\* the directory after 'if audio_path.exists(): audio_path.unlink()'
CleanedUp(dir, r) == IF AudioPath(r) \in DOMAIN dir THEN Without(dir, AudioPath(r)) ELSE dir

\* the handler from the return of file.read() to its end; nothing in it
\* awaits, transcribe_audio included, so the event loop runs it in one piece
FinishRequest(r) ==
    /\ apc[r] = "reading"
    /\ LET content == audio_requests[r].content
           written == [inodes EXCEPT ![fds[r]] = Overwrite(@, content)]
       IN  IF content = <<>>
           THEN /\ audio_responses' = [audio_responses EXCEPT ![r] =
                       [status |-> 400, detail |-> "Uploaded file is empty",
                        uploaded |-> <<>>]]
                /\ UNCHANGED inodes
           ELSE /\ inodes' = written
                /\ IF AudioPath(r) \notin DOMAIN tmp_audio
                   THEN audio_responses' = [audio_responses EXCEPT ![r] =
                            [status |-> 500, detail |-> "Audio file not found",
                             uploaded |-> <<>>]]
                   ELSE \E outcome \in UploadOutcomes :
                            audio_responses' = [audio_responses EXCEPT ![r] =
                                [status |-> IF outcome = "ok" THEN 200 ELSE 500,
                                 detail |-> IF outcome = "ok" THEN "" ELSE "Transcription failed",
                                 uploaded |-> written[tmp_audio[AudioPath(r)]]]]
    /\ tmp_audio' = CleanedUp(tmp_audio, r)
    /\ fds' = [fds EXCEPT ![r] = 0]
    /\ apc' = [apc EXCEPT ![r] = "answered"]
    /\ UNCHANGED <<audio_requests, scoringVars, mergeVars, transVars,
                   labelVars, providerVars, discreteVars, shapeVars, endpointVars>>

NextAudio == \E r \in AudioRequests : OpenForWrite(r) \/ FinishRequest(r)

SpecAudio == InitAudio /\ [][NextAudio]_vars

----------------------------------------------------------------------------
(* Reading a compiled report                                               *)

Compiled == phase = "compiled"

\* the rubric's criteria in declaration order
RubricCriteria ==
    LET cats == Get(rubric, "categories", <<>>)
    IN  Flatten([c \in 1 .. Len(cats) |-> Get(cats[c], "sub_parameters", <<>>)])

\* the raw score the oracle gave for an id (0 when it gave none)
OracleScore(id) ==
    IF id \in DOMAIN scoring_results /\ "score" \in DOMAIN scoring_results[id]
    THEN scoring_results[id].score
    ELSE 0

\* the ids the report names as failed fatal criteria
ReportedFailed ==
    IF "failed_fatal_parameters" \in DOMAIN report.metadata
    THEN {report.metadata.failed_fatal_parameters[i][2] :
            i \in DOMAIN report.metadata.failed_fatal_parameters}
    ELSE {}

GateTriggered == report.metadata.fatal_parameter_failed

\* the ids of the report's entries that are fatal, not NA and scored 0
ZeroFatalEntries ==
    {report.criteria_scores[i].id : i \in
        {j \in DOMAIN report.criteria_scores :
            /\ report.criteria_scores[j].id \in fatal_param_ids
            /\ ~ report.criteria_scores[j].is_na
            /\ report.criteria_scores[j].score = 0}}

Clamp(x, lo, hi) == IF x < lo THEN lo ELSE IF x > hi THEN hi ELSE x

NonFatalSum ==
    SumSeq([i \in DOMAIN report.criteria_scores |->
              IF report.criteria_scores[i].id \in fatal_param_ids
              THEN 0 ELSE report.criteria_scores[i].score])

----------------------------------------------------------------------------
(* Claims about the granular report                                        *)

\* C1: fatal dominance - if a fatal criterion of the report has resolved
\* score exactly 0 and is not NA, the report's total_score is 0.
C1_FatalDominance ==
    Compiled /\ ZeroFatalEntries # {} => report.total_score = 0

\* C2: the reported failed fatal criteria are exactly the report's fatal,
\* non-NA, zero-scored criteria, and the fatal flag is true iff that set is
\* non-empty.
C2_FailedSetExact ==
    Compiled =>
        /\ ReportedFailed = ZeroFatalEntries
        /\ GateTriggered <=> ZeroFatalEntries # {}

\* C3: NA full credit - an entry is NA iff the oracle's raw score is -1, an
\* NA entry scores the rubric's max_points, and a raw -1 on a fatal criterion
\* is never reported as a fatal failure.
C3_NAFullCredit ==
    Compiled =>
        \A i \in DOMAIN RubricCriteria :
            /\ i \in DOMAIN report.criteria_scores
            /\ report.criteria_scores[i].is_na <=> OracleScore(RubricCriteria[i].id) = -1
            /\ report.criteria_scores[i].is_na =>
                  report.criteria_scores[i].score = RubricCriteria[i].max_points
            /\ OracleScore(RubricCriteria[i].id) = -1 =>
                  RubricCriteria[i].id \notin ReportedFailed

\* C3 witness: a fatal criterion worth points is NA, gets them all, and the
\* gate stays open
C3_Witness ==
    /\ Compiled
    /\ ~ GateTriggered
    /\ \E i \in DOMAIN RubricCriteria :
         /\ RubricCriteria[i].id \in fatal_param_ids
         /\ RubricCriteria[i].max_points > 0
         /\ OracleScore(RubricCriteria[i].id) = -1
         /\ report.criteria_scores[i].is_na
         /\ report.criteria_scores[i].score = RubricCriteria[i].max_points

\* C4: clamping - for a raw score other than -1 the reported score is
\* clamp(raw, 0, max_points), and every entry has 0 <= score <= max_points.
C4_Clamping ==
    Compiled =>
        \A i \in DOMAIN RubricCriteria :
            /\ i \in DOMAIN report.criteria_scores
            /\ OracleScore(RubricCriteria[i].id) # -1 =>
                  report.criteria_scores[i].score =
                     Clamp(OracleScore(RubricCriteria[i].id), 0, RubricCriteria[i].max_points)
            /\ 0 <= report.criteria_scores[i].score
            /\ report.criteria_scores[i].score <= report.criteria_scores[i].max_points

\* C4 witness: one report holds a score capped to max_points and a negative
\* score floored to 0
C4_Witness ==
    /\ Compiled
    /\ \E i, j \in DOMAIN RubricCriteria :
         /\ OracleScore(RubricCriteria[i].id) > RubricCriteria[i].max_points
         /\ report.criteria_scores[i].score = RubricCriteria[i].max_points
         /\ OracleScore(RubricCriteria[j].id) < -1
         /\ report.criteria_scores[j].score = 0

C6_GateFrame ==
    Compiled /\ GateTriggered =>
        /\ report.total_score = 0
        /\ report.percentage = 0
        /\ "total_points" \in DOMAIN rubric => report.total_points = rubric.total_points
        /\ Len(report.criteria_scores) = Len(RubricCriteria)
        /\ \A i \in DOMAIN RubricCriteria :
             LET e == report.criteria_scores[i]
                 c == RubricCriteria[i]
                 raw == OracleScore(c.id)
             IN  /\ e.max_points = c.max_points
                 /\ e.is_na = (raw = -1)
                 /\ e.is_fatal = (c.id \in fatal_param_ids)
                 /\ e.score = IF raw = -1 THEN c.max_points
                              ELSE Clamp(raw, 0, c.max_points)

\* C6 witness: the gate triggered while non-fatal entries still show points
C6_Witness ==
    /\ Compiled
    /\ GateTriggered
    /\ NonFatalSum > 0
    /\ report.total_points > 0
    /\ \E i \in DOMAIN report.criteria_scores :
         report.criteria_scores[i].is_fatal /\ report.criteria_scores[i].score > 0

\* C7: criteria_scores holds exactly one entry per rubric criterion, in
\* rubric declaration order, whatever keys the payload has.
C7_OneEntryPerCriterion ==
    Compiled =>
        /\ Len(report.criteria_scores) = Len(RubricCriteria)
        /\ \A i \in DOMAIN RubricCriteria :
             report.criteria_scores[i].id = RubricCriteria[i].id

\* C7 witness: a rubric of two categories, one criterion missing from the
\* payload, and a payload key no rubric criterion has
C7_Witness ==
    /\ Compiled
    /\ Len(rubric.categories) >= 2
    /\ Len(report.criteria_scores) >= 3
    /\ \E i \in DOMAIN RubricCriteria : RubricCriteria[i].id \notin DOMAIN scoring_results
    /\ \E k \in DOMAIN scoring_results :
         \A i \in DOMAIN RubricCriteria : RubricCriteria[i].id # k

\* C8: with total_points the sum of the criteria's max_points,
\* 0 <= total_score <= total_points.
C8_TotalInRange ==
    Compiled
    /\ "total_points" \in DOMAIN rubric
    /\ rubric.total_points =
         SumSeq([i \in DOMAIN RubricCriteria |-> RubricCriteria[i].max_points])
    => /\ 0 <= report.total_score
       /\ report.total_score <= report.total_points

\* C8 witness: every non-fatal criterion is over-scored and the total
\* reaches the full budget of a rubric without fatal criteria
C8_Witness ==
    /\ Compiled
    /\ "total_points" \in DOMAIN rubric
    /\ rubric.total_points > 0
    /\ report.total_score = report.total_points
    /\ \E i \in DOMAIN RubricCriteria :
         OracleScore(RubricCriteria[i].id) > RubricCriteria[i].max_points

\* C9: the report carries per-category totals - for each rubric category,
\* awarded is the sum of its non-fatal criteria's resolved scores and max is
\* the category maximum the rubric declares; the awarded values sum to
\* total_score when the gate is not triggered.
C9_CategoryTotals ==
    Compiled =>
        /\ "category_scores" \in DOMAIN report
        /\ \A c \in DOMAIN rubric.categories :
             /\ rubric.categories[c].id \in DOMAIN report.category_scores
             /\ report.category_scores[rubric.categories[c].id].max_points =
                  rubric.categories[c].max_points
             /\ report.category_scores[rubric.categories[c].id].score =
                  CatAwarded(rubric.categories[c], scoring_results)
        /\ ~ GateTriggered =>
             report.total_score =
               SumSeq([c \in DOMAIN rubric.categories |->
                         report.category_scores[rubric.categories[c].id].score])

\* the payload with every echoed max_points taken out
WithoutEcho(results) ==
    [k \in DOMAIN results |->
        [f \in DOMAIN results[k] \ {"max_points"} |-> results[k][f]]]

\* C23: echo ignored - the max_points the oracle echoes has no influence on
\* the report: the report is the one compiled from the payload without the
\* echoes, every reported max_points and every clamping bound is the
\* rubric's, and total_points comes from the rubric.
C23_EchoIgnored ==
    Compiled =>
        /\ report = compile_final_report(WithoutEcho(scoring_results), rubric)
        /\ report.total_points = Get(rubric, "total_points", DefaultTotalPoints)
        /\ Len(report.criteria_scores) = Len(RubricCriteria)
        /\ \A i \in DOMAIN report.criteria_scores :
             /\ report.criteria_scores[i].max_points = RubricCriteria[i].max_points
             /\ report.criteria_scores[i].score <= RubricCriteria[i].max_points

\* C23 witness: the oracle echoed a max_points above the rubric's for a
\* criterion it scored above the rubric's max_points, and the report shows
\* the rubric's max_points and a score clamped to it
C23_Witness ==
    /\ Compiled
    /\ \E i \in DOMAIN report.criteria_scores :
         LET id == report.criteria_scores[i].id
         IN  /\ id \in DOMAIN scoring_results
             /\ "max_points" \in DOMAIN scoring_results[id]
             /\ scoring_results[id].max_points > RubricCriteria[i].max_points
             /\ scoring_results[id].score > RubricCriteria[i].max_points
             /\ RubricCriteria[i].max_points > 0
             /\ report.criteria_scores[i].max_points = RubricCriteria[i].max_points
             /\ report.criteria_scores[i].score = RubricCriteria[i].max_points

\* C25: absent criterion - a rubric criterion whose id the payload lacks is
\* compiled, without an error, as the default zero entry (score 0, is_na
\* false); when the id is one of the fatal ids, that zero is a fatal zero:
\* the gate triggers and total_score is 0.
C25_AbsentCriterion ==
    Compiled =>
        /\ report # NoReport
        /\ \A i \in DOMAIN report.criteria_scores :
             RubricCriteria[i].id \notin DOMAIN scoring_results =>
                /\ report.criteria_scores[i].id = RubricCriteria[i].id
                /\ report.criteria_scores[i].score = 0
                /\ ~ report.criteria_scores[i].is_na
                /\ RubricCriteria[i].id \in fatal_param_ids =>
                     /\ GateTriggered
                     /\ RubricCriteria[i].id \in ReportedFailed
                     /\ report.total_score = 0

\* C25 witness: the payload lacks a fatal criterion of the rubric and
\* answers every other fatal id with a positive score; the other criteria
\* earned points, the gate triggered on the absent id alone and the total
\* is 0
C25_Witness ==
    /\ Compiled
    /\ \E i \in DOMAIN report.criteria_scores :
         /\ RubricCriteria[i].id \in fatal_param_ids
         /\ RubricCriteria[i].id \notin DOMAIN scoring_results
         /\ RubricCriteria[i].max_points > 0
         /\ ReportedFailed = {RubricCriteria[i].id}
    /\ NonFatalSum > 0
    /\ report.total_score = 0

\* C26: shape validation - an entry that is not an object, or whose score
\* is not an integer, is absorbed: compile_final_report does not end with
\* an exception, a report is produced and the criterion gets a bounded
\* default entry.
C26_ShapeAbsorbed ==
    Compiled =>
        /\ "raised" \notin DOMAIN report
        /\ "criteria_scores" \in DOMAIN report
        /\ \A i \in DOMAIN report.criteria_scores :
             /\ report.criteria_scores[i].score >= 0
             /\ report.criteria_scores[i].score <= RubricCriteria[i].max_points

----------------------------------------------------------------------------
(* Claims about the segment merge                                          *)

\* C10: merge idempotence - merging the merged list again returns the same
\* list: same length and, position by position, the same speaker,
\* start_time, end_time and text.
C10_MergeIdempotent ==
    mphase = "remerged" =>
        /\ Len(remerged) = Len(merged)
        /\ \A i \in DOMAIN merged :
             /\ remerged[i].speaker = merged[i].speaker
             /\ remerged[i].start_time = merged[i].start_time
             /\ remerged[i].end_time = merged[i].end_time
             /\ remerged[i].text = merged[i].text

\* C10 witness: two same-speaker segments were merged into one whose text
\* the sanitizer changed, followed by an untrimmed segment of another
\* speaker, and the second merge has run
C10_Witness ==
    /\ mphase = "remerged"
    /\ Len(segments) = 3
    /\ Len(merged) = 2
    /\ Len(remerged) = 2
    /\ merged[1].end_time = segments[2].end_time
    /\ merged[1].end_time # segments[1].end_time
    /\ merged[1].text # segments[1].text \o <<" ">> \o segments[2].text
    /\ merged[1].text # <<>>
    /\ merged[2] = segments[3]
    /\ Strip(merged[2].text) # merged[2].text

\* positions of 'segments' where a maximal run of one speaker starts
RunStarts ==
    {i \in DOMAIN segments : i = 1 \/ segments[i - 1].speaker # segments[i].speaker}

\* first and last position of the k-th run
RunStart(k) == CHOOSE s \in RunStarts : Cardinality({r \in RunStarts : r <= s}) = k

RunEnd(k) ==
    IF k = Cardinality(RunStarts) THEN Len(segments) ELSE RunStart(k + 1) - 1

\* the trimmed texts of segments i..j joined by single spaces
RECURSIVE JoinTrimmed(_, _)
JoinTrimmed(i, j) ==
    IF i = j THEN Strip(segments[i].text)
    ELSE Strip(segments[i].text) \o <<" ">> \o JoinTrimmed(i + 1, j)

\* every text of segments i..j has a character left after trimming and no
\* character the sanitizer deletes
RunTextsPlain(i, j) ==
    \A m \in i .. j :
        /\ Strip(segments[m].text) # <<>>
        /\ \A n \in DOMAIN segments[m].text : segments[m].text[n] \notin ZeroWidth

\* speaker, start_time and end_time of the k-th output segment come from
\* the k-th run
RunFrame(k) ==
    /\ merged[k].speaker = segments[RunStart(k)].speaker
    /\ merged[k].start_time = segments[RunStart(k)].start_time
    /\ merged[k].end_time = segments[RunEnd(k)].end_time

\* C12 as stated: run replacement - the merge replaces each maximal run of
\* same-speaker segments by one segment with the speaker and start_time of
\* the run's first segment, the end_time of its last, and the trimmed texts
\* of the run joined by single spaces as text.
C12_RunReplacement ==
    mphase = "merged" =>
        /\ Len(merged) = Cardinality(RunStarts)
        /\ \A k \in DOMAIN merged :
             /\ RunFrame(k)
             /\ merged[k].text = JoinTrimmed(RunStart(k), RunEnd(k))

\* C12: run replacement - the merge replaces each maximal run of
\* same-speaker segments by one segment with the speaker and start_time of
\* the run's first segment and the end_time of its last; a run of one
\* segment keeps its text as it is, and a longer run whose texts are all
\* non-blank and free of deleted characters gets the trimmed texts joined by
\* single spaces.
C12_RunReplacementPlain ==
    mphase = "merged" =>
        /\ Len(merged) = Cardinality(RunStarts)
        /\ \A k \in DOMAIN merged :
             /\ RunFrame(k)
             /\ RunStart(k) = RunEnd(k) =>
                  merged[k].text = segments[RunStart(k)].text
             /\ RunStart(k) < RunEnd(k) /\ RunTextsPlain(RunStart(k), RunEnd(k)) =>
                  merged[k].text = JoinTrimmed(RunStart(k), RunEnd(k))

\* C12 witness: a run of two plain texts, one of them untrimmed, was joined
\* and its end_time moved, and a run of one segment kept its untrimmed text
C12_Witness ==
    /\ mphase = "merged"
    /\ Len(segments) = 3
    /\ Len(merged) = 2
    /\ RunTextsPlain(1, 2)
    /\ Strip(segments[2].text) # segments[2].text
    /\ merged[1].text = JoinTrimmed(1, 2)
    /\ merged[1].end_time # segments[1].end_time
    /\ Strip(segments[3].text) # segments[3].text
    /\ merged[2].text = segments[3].text

----------------------------------------------------------------------------
(* Reading a transcription run                                             *)

Done == tphase = "done"

\* the structured segments before the merge, recomputed from the aggregation
Converted ==
    ConvertLoop([speaker_segments |-> <<>>, total_duration |-> 0], tok_segments, 0).speaker_segments

Returned == tresult.speaker_segments

----------------------------------------------------------------------------
(* Claims about the transcription result                                   *)

\* C11: no adjacent duplicates - in the returned segment list, after the
\* merge and the optional normalization, no two adjacent segments have the
\* same speaker.
C11_NoAdjacentDuplicates ==
    Done =>
        \A i \in 1 .. Len(Returned) - 1 :
            Returned[i].speaker # Returned[i + 1].speaker

\* C11 witness: the aggregation produced two adjacent segments of one
\* speaker, the merge joined them, the labels were normalized and more than
\* one segment is returned
C11_Witness ==
    /\ Done
    /\ normalize_speakers
    /\ \E i \in 1 .. Len(Converted) - 1 : Converted[i].speaker = Converted[i + 1].speaker
    /\ Len(Returned) < Len(Converted)
    /\ Len(Returned) > 1

\* C13: timing well-formedness - every returned segment, merged ones
\* included, has 0 <= start_time <= end_time, for every token list and
\* every merge_threshold.
C13_TimingWellFormed ==
    Done =>
        \A i \in DOMAIN Returned :
            /\ 0 <= Returned[i].start_time
            /\ Returned[i].start_time <= Returned[i].end_time

\* C14: duration consistency - every returned segment, merged ones
\* included, has duration = end_time - start_time.
C14_DurationConsistent ==
    Done =>
        \A i \in DOMAIN Returned :
            Returned[i].duration = Returned[i].end_time - Returned[i].start_time

\* the tokens before position n that were not skipped
KeptBefore(n) == {m \in 1 .. n - 1 : sanitize_token_text(Get(tokens[m], "text", <<>>)) # <<>>}

\* start and end of token m in seconds, as the spec resolves them
SpecStart(m) ==
    IF "start_time" \in DOMAIN tokens[m] THEN tokens[m].start_time
    ELSE IF "start_ms" \in DOMAIN tokens[m] THEN tokens[m].start_ms * 10
    ELSE 0

SpecEnd(m) ==
    IF "end_time" \in DOMAIN tokens[m] THEN tokens[m].end_time
    ELSE IF "end_ms" \in DOMAIN tokens[m] THEN tokens[m].end_ms * 10
    ELSE SpecStart(m)

\* the last token before position n that was not skipped
LastKept(n) == CHOOSE m \in KeptBefore(n) : \A o \in KeptBefore(n) : o <= m

\* C15: aggregation rule - a token that is not skipped opens a new segment
\* exactly when no segment is open, or its speaker differs from the open
\* segment's, or its start minus the open segment's end_time, both in
\* seconds, exceeds merge_threshold; so consecutive same-speaker tokens
\* whose gap is at most merge_threshold are placed in the same segment.
C15_AggregationRule ==
    tphase = "tokens" /\ tpos > 0 /\ loc.kind # "skip" =>
        (loc.kind = "open" <=>
            \/ KeptBefore(tpos) = {}
            \/ Get(tokens[LastKept(tpos)], "speaker", "UNKNOWN") #
                 Get(tokens[tpos], "speaker", "UNKNOWN")
            \/ SpecStart(tpos) - SpecEnd(LastKept(tpos)) > merge_threshold)

\* a token has no text left once the deleted characters are taken out
TextVanishes(tok) ==
    \/ "text" \notin DOMAIN tok
    \/ \A n \in DOMAIN tok.text : tok.text[n] \in ZeroWidth

\* the token list without the tokens whose text vanishes
WithoutVanishing == SelectSeq(tokens, LAMBDA tok : ~ TextVanishes(tok))

\* C16: skipped tokens - a token whose sanitized (preserve-mode) text is
\* empty is skipped entirely: the segments built from a token list are the
\* segments built from the list with those tokens removed, whatever their
\* speaker and timing.
C16_SkippedTokensInert ==
    tphase \in {"aggregated", "done"} =>
        tok_segments = Aggregate(WithoutVanishing, merge_threshold)

\* C16 witness: a token without text, of another speaker and with a start
\* far beyond merge_threshold, stood between two tokens that were
\* aggregated into one segment
C16_Witness ==
    /\ tphase = "aggregated"
    /\ Len(tokens) = 3
    /\ TextVanishes(tokens[2])
    /\ ~ TextVanishes(tokens[1])
    /\ ~ TextVanishes(tokens[3])
    /\ Get(tokens[2], "speaker", "UNKNOWN") # Get(tokens[1], "speaker", "UNKNOWN")
    /\ SpecStart(2) - SpecEnd(1) > merge_threshold
    /\ Len(tok_segments) = 1

TimingKeys == {"start_time", "start_ms", "end_time", "end_ms"}

\* C17: timing resolution - a token's start is start_time when present,
\* otherwise start_ms divided by 1000, otherwise 0; its end is end_time when
\* present, otherwise end_ms divided by 1000, otherwise the resolved start;
\* a missing timing field does not stop the aggregation.
C17_TimingResolution ==
    tpos > 0 /\ loc.kind # "skip" =>
        /\ loc.start = SpecStart(tpos)
        /\ loc.end = SpecEnd(tpos)

\* C17 witness: the aggregation ran to its end over a token without any
\* timing field, a token with millisecond fields only, and a last token
\* with start_time only, whose end resolved to its start
C17_Witness ==
    /\ tphase = "aggregated"
    /\ Len(tokens) = 3
    /\ tpos = 3
    /\ DOMAIN tokens[1] \cap TimingKeys = {}
    /\ DOMAIN tokens[2] \cap TimingKeys = {"start_ms", "end_ms"}
    /\ DOMAIN tokens[3] \cap TimingKeys = {"start_time"}
    /\ loc.kind = "open"
    /\ loc.start = tokens[3].start_time
    /\ loc.end = loc.start
    /\ Len(tok_segments) = 3

\* the largest end_time among the first n returned segments, 0 for none
RECURSIVE MaxEndTime(_)
MaxEndTime(n) ==
    IF n = 0 THEN 0
    ELSE IF Returned[n].end_time > MaxEndTime(n - 1)
         THEN Returned[n].end_time ELSE MaxEndTime(n - 1)

\* C20: result totals - the result's duration equals the maximum end_time
\* over the returned speaker_segments, 0 when the list is empty, and
\* speaker_count equals the number of distinct speakers in that list.
C20_ResultTotals ==
    Done =>
        /\ tresult.duration = MaxEndTime(Len(Returned))
        /\ tresult.speaker_count =
             Cardinality({Returned[i].speaker : i \in DOMAIN Returned})

----------------------------------------------------------------------------
(* Claims about the speaker labels                                         *)

RawIds == {label_input[i].speaker : i \in DOMAIN label_input}

\* the first position at which a raw id occurs
FirstAt(id) ==
    CHOOSE i \in DOMAIN label_input :
        /\ label_input[i].speaker = id
        /\ \A j \in 1 .. i - 1 : label_input[j].speaker # id

\* the number of raw ids that have occurred up to the first occurrence of id
AppearanceRank(id) == Cardinality({o \in RawIds : FirstAt(o) <= FirstAt(id)})

\* C18: first-appearance numbering - the normalization gives the distinct
\* raw speaker ids the labels 'Speaker 1', 'Speaker 2', ... in the order in
\* which they first appear, and the number of distinct labels equals the
\* number of distinct raw ids.
C18_FirstAppearanceLabels ==
    lphase = "normalized" =>
        /\ Len(normalized) = Len(label_input)
        /\ \A i \in DOMAIN label_input :
             normalized[i].speaker = SpeakerLabel(AppearanceRank(label_input[i].speaker))
        /\ Cardinality({normalized[i].speaker : i \in DOMAIN normalized}) =
             Cardinality(RawIds)

\* C18 witness: S5 appears first, S2 second, S5 again, and the labels are
\* Speaker 1, Speaker 2, Speaker 1
C18_Witness ==
    /\ lphase = "normalized"
    /\ Len(label_input) = 3
    /\ label_input[1].speaker = "S5"
    /\ label_input[2].speaker = "S2"
    /\ label_input[3].speaker = "S5"
    /\ normalized[1].speaker = "Speaker 1"
    /\ normalized[2].speaker = "Speaker 2"
    /\ normalized[3].speaker = "Speaker 1"

\* C19: pure rename - the normalized list has the length and order of the
\* input, every segment keeps its start_time, end_time, duration and text,
\* and the input list is never modified.
C19_PureRename ==
    /\ [](lphase = "normalized" =>
            /\ Len(normalized) = Len(label_input)
            /\ \A i \in DOMAIN label_input :
                 /\ DOMAIN normalized[i] = DOMAIN label_input[i]
                 /\ normalized[i].start_time = label_input[i].start_time
                 /\ normalized[i].end_time = label_input[i].end_time
                 /\ normalized[i].duration = label_input[i].duration
                 /\ normalized[i].text = label_input[i].text)
    /\ [][label_input' = label_input]_vars

\* C19 witness: three segments with different times were relabelled, one of
\* them with an untrimmed text that came out as it went in
C19_Witness ==
    /\ lphase = "normalized"
    /\ Len(label_input) = 3
    /\ label_input[1].start_time # label_input[2].start_time
    /\ \A i \in DOMAIN label_input : normalized[i].speaker # label_input[i].speaker
    /\ Strip(label_input[3].text) # label_input[3].text
    /\ normalized[3].text = label_input[3].text

----------------------------------------------------------------------------
(* Claims about the provider run                                           *)

\* C21: no empty transcript - a transcript response with a missing or
\* empty token list makes the run raise an error with a message and return
\* nothing, and no run returns with an empty speaker_segments list.
C21_NoEmptyTranscript ==
    /\ pstep = "returned" =>
         /\ Get(transcript_json, "tokens", <<>>) # <<>>
         /\ presult.speaker_segments # <<>>
    /\ pstep = "failed" =>
         /\ perror # NoError
         /\ perror.message # ""
         /\ presult = EmptyDict

----------------------------------------------------------------------------
(* Claims about the discrete scorer                                        *)

V1Scored == v1phase = "scored"

\* the answer the oracle gave for a criterion, read from that criterion's
\* own entry: the answer field of an object, or the bare string
GivenAnswer(cid) ==
    IF cid \notin DOMAIN v1_raw THEN "na"
    ELSE IF v1_raw[cid].kind = "dict" THEN Get(v1_raw[cid].fields, "answer", "na")
    ELSE IF v1_raw[cid].kind = "str" THEN v1_raw[cid].value
    ELSE "na"

\* lower-cased when it is one of yes/no/na, 'na' otherwise
ExpectedAnswer(cid) ==
    IF Lower(GivenAnswer(cid)) \in {"yes", "no", "na"} THEN Lower(GivenAnswer(cid)) ELSE "na"

\* C22: discrete mode - for every rubric criterion the resolved answer is
\* the oracle's answer lower-cased when it is one of yes/no/na and 'na' when
\* it is unrecognized or missing; the points awarded are those of the rubric
\* level whose label is the resolved answer; every criterion appears once in
\* criteria_scores, in rubric order; total_score is the sum of the points.
C22_DiscreteScoring ==
    V1Scored =>
        /\ Len(v1_report.criteria_scores) = Len(v1_rubric.criteria)
        /\ \A i \in DOMAIN v1_rubric.criteria :
             LET criterion == v1_rubric.criteria[i]
                 entry == v1_report.criteria_scores[i]
             IN  /\ entry.id = criterion.id
                 /\ v1_report.yes_no_na_responses[criterion.id] = ExpectedAnswer(criterion.id)
                 /\ \A l \in DOMAIN criterion.levels :
                      Lower(criterion.levels[l].label) =
                        v1_report.yes_no_na_responses[criterion.id]
                      => entry.points_awarded = criterion.levels[l].points
        /\ v1_report.total_score =
             SumSeq([i \in DOMAIN v1_report.criteria_scores |->
                       v1_report.criteria_scores[i].points_awarded])

\* C29: answer independence - the answer resolved for a criterion depends
\* only on that criterion's own entry: an object entry with answer 'yes' or
\* 'no' resolves to that answer whatever the other entries of the payload
\* look like.
C29_AnswerIndependence ==
    v1phase \in {"resolved", "scored"} =>
        \A i \in DOMAIN v1_rubric.criteria :
            LET cid == v1_rubric.criteria[i].id
            IN  /\ cid \in DOMAIN v1_raw
                /\ v1_raw[cid].kind = "dict"
                /\ Get(v1_raw[cid].fields, "answer", "na") \in {"yes", "no"}
                => scoring_data.answers[cid] = v1_raw[cid].fields.answer

----------------------------------------------------------------------------
(* Claims about the score endpoint                                         *)

\* C24: version selection - the score endpoint calls the V1 (discrete)
\* scorer when the request has no version field, and the V2 (granular)
\* scorer only when version is 'v2' in any letter case.
C24_VersionSelection ==
    ephase = "answered" =>
        /\ "version" \notin DOMAIN transcript_data =>
             score_response.scorer = "score_transcript"
        /\ score_response.scorer = "score_transcript_main" =>
             /\ "version" \in DOMAIN transcript_data
             /\ transcript_data.version \in {<<"v", "2">>, <<"V", "2">>}

----------------------------------------------------------------------------
(* Claims about the provider run                                           *)

PendingStatuses == JobStatuses \ {"completed", "error"}

RequestOrder == <<"none", "upload", "create", "poll", "fetch">>

RequestRank(request) == CHOOSE i \in DOMAIN RequestOrder : RequestOrder[i] = request

RequestFailed == perror \in {RequestError(outcome) : outcome \in RequestOutcomes \ {"ok"}}

\* where the run stands agrees with the last request made and the status
\* last observed
ProtocolState ==
    /\ pstep \in {"start", "ready"} => last_request = "none"
    /\ pstep = "uploaded" => last_request = "upload"
    /\ pstep = "created" => last_request = "create"
    /\ pstep = "polling" =>
         last_request = "poll" /\ observed \in PendingStatuses /\ sleep_s = PollInterval
    /\ pstep = "completed" => last_request = "poll" /\ observed = "completed"
    /\ last_request = "fetch" => observed = "completed"
    /\ pstep = "returned" => last_request = "fetch"
    /\ observed = "error" => pstep = "failed"

\* the requests come in the order upload, create, poll, fetch, none skipped
\* and only the poll repeated; the poll loop is left only on 'completed',
\* on 'error' or on a failed request
ProtocolStep ==
    /\ last_request' # last_request =>
         RequestRank(last_request') = RequestRank(last_request) + 1
    /\ polls' # polls => last_request' = "poll" /\ polls' = polls + 1
    /\ (pstep \in {"created", "polling"} /\ pstep' \notin {"created", "polling"}) =>
         \/ pstep' = "completed" /\ observed' = "completed"
         \/ pstep' = "failed" /\ observed' = "error"
         \/ pstep' = "failed" /\ RequestFailed'

\* C27: provider protocol - the run uploads, creates the job, polls and
\* fetches in that order; tokens are fetched only after a poll observed
\* 'completed'; an observed 'error' aborts the run; any other status leads to
\* another poll after the fixed interval, with no bound on the polls; so the
\* run ends once the provider reports 'completed' or 'error' (or a request
\* fails) and is left in the poll loop only in those ways.
C27_ProviderProtocol ==
    /\ [] ProtocolState
    /\ [][ProtocolStep]_vars
    /\ (job_status \in {"completed", "error"}) ~> (pstep \in {"returned", "failed"})

\* the job was seen pending on every counted poll but the last, seen
\* completed on the last, and its tokens were returned
C27_Witness ==
    /\ polls = MaxPolls
    /\ observed = "completed"
    /\ pstep = "returned"

----------------------------------------------------------------------------
(* Claims about the text of the aggregated segments                        *)

\* the sanitized texts of the tokens that are not skipped, in input order
KeptTexts ==
    SelectSeq([n \in DOMAIN tokens |-> sanitize_token_text(Get(tokens[n], "text", <<>>))],
              LAMBDA text : text # <<>>)

\* the texts of the segments built by the aggregation pass, in order
SegmentTexts == [n \in DOMAIN tok_segments |-> tok_segments[n].text]

\* ends[n] is the position in KeptTexts of the last token of segment n:
\* the segments are consecutive non-empty blocks that cover KeptTexts
IsBlockSplit(ends) ==
    /\ \A n \in DOMAIN ends : (IF n = 1 THEN 0 ELSE ends[n - 1]) < ends[n]
    /\ (IF ends = <<>> THEN 0 ELSE ends[Len(ends)]) = Len(KeptTexts)
    /\ \A n \in DOMAIN ends :
         SegmentTexts[n] =
             Flatten(SubSeq(KeptTexts, (IF n = 1 THEN 0 ELSE ends[n - 1]) + 1, ends[n]))

\* C28: text conservation - the texts of the segments built by the
\* aggregation pass, concatenated in order without separator, are the
\* non-empty sanitized token texts concatenated in input order, and every
\* segment is the concatenation of a contiguous block of those tokens.
C28_TextConserved ==
    tphase \in {"aggregated", "done"} =>
        /\ Flatten(SegmentTexts) = Flatten(KeptTexts)
        /\ \E ends \in [DOMAIN tok_segments -> 1 .. Len(tokens)] : IsBlockSplit(ends)

\* C28 witness: three tokens, the first ending with a space, were
\* aggregated into two segments, the first holding the first two tokens
C28_Witness ==
    /\ tphase = "aggregated"
    /\ Len(KeptTexts) = 3
    /\ Len(tok_segments) = 2
    /\ KeptTexts[1] = <<"a", " ">>
    /\ SegmentTexts[1] = <<"a", " ", "b">>

----------------------------------------------------------------------------
(* Claims about concurrent transcribe requests                             *)

\* request r was answered as it would have been alone: its own bytes went
\* to the provider and its temporary file was there to be read
ServedAlone(r) ==
    IF audio_requests[r].content = <<>>
    THEN audio_responses[r].status = 400
    ELSE /\ audio_responses[r].uploaded = audio_requests[r].content
         /\ audio_responses[r].detail # "Audio file not found"

\* no file is left at the path of request r, unless a request still under
\* way has opened one there
TempFileRemoved(r) ==
    AudioPath(r) \in DOMAIN tmp_audio =>
        \E q \in AudioRequests \ {r} : apc[q] = "reading" /\ AudioPath(q) = AudioPath(r)

\* C30: concurrent requests - of two transcribe requests in flight
\* together, the same filename included, each transcribes exactly the bytes
\* it was sent, neither fails or loses its temporary file because of the
\* other's write or cleanup, and once a request has ended its temporary
\* file has been removed.
C30_RequestsIsolated ==
    \A r \in DOMAIN apc :
        apc[r] = "answered" => ServedAlone(r) /\ TempFileRemoved(r)

====
